---- MODULE Spec2Model ----
(***************************************************************************)
(* HiGHS simplex engine (HEkk, src/src/simplex/HEkk.cpp) and the Highs     *)
(* interface layer (src/src/lp_data/HighsInterface.cpp) as state machines. *)
(*                                                                         *)
(* SpecSolve : control flow of HEkk::solve, cleanup, the bailout poll and  *)
(*             returnFromSolve.  The algorithm drivers HEkkPrimal/HEkkDual *)
(*             are not part of the sources; they are modelled by their     *)
(*             contract with the engine (the engine's own assertions).     *)
(* Spec      : the simplex basis and the Highs basis under setBasis,       *)
(*             getHighsBasis, setHotStartInterface, updatePivots and the   *)
(*             addition of columns and rows.                               *)
(* SpecWork  : the work arrays under initialiseBound,                      *)
(*             initialiseNonbasicValueAndMove, flipBound, correctDual and  *)
(*             updatePivots.                                               *)
(* SpecIface : the mutating interface operations of Highs, their Error     *)
(*             returns and the invalidation of status, solution and info.  *)
(* SpecFactor: initialiseSimplexLpBasisAndFactor, computeFactor and        *)
(*             getBasicVariablesInterface over a basis that may be rank    *)
(*             deficient.                                                  *)
(* SpecEdit  : addition and deletion of columns and rows of an LP with a   *)
(*             valid basis, by interval and by mask.                       *)
(* SpecChange: changes of bounds of an LP with a valid basis.              *)
(* SpecScale : scaling of a column or row of an LP with both bases.        *)
(* SpecInf   : handleInfCost on an LP or MIP with infinite costs.          *)
(* SpecOpt   : optionChangeAction on the user's bound and cost scaling.    *)
(* SpecCall  : basisSolveInterface and the vectors it writes.              *)
(* SpecThreads: chooseSimplexStrategyThreads.                              *)
(* SpecPivot : updatePivots between the rebuilds of a driver.              *)
(* SpecDual  : computeDual followed by correctDual, with flips and shifts. *)
(* SpecBack  : getNonsingularInverse, the backtracking basis and the dual  *)
(*             edge weights.                                               *)
(* SpecMove  : setNonbasicMove and the interface on boxed variables.       *)
(* SpecUpdate: computeFactor, updatePivots and updateFactor.               *)
(* SpecAppend: appendNonbasicColsToBasisInterface, the shift in place.     *)
(* SpecRound : setBasis(basis) followed by getHighsBasis.                  *)
(* SpecSolveLive: SpecSolve where every driver that is called returns.     *)
(* SpecLeak  : solves in sequence, the multipliers and the blocks on       *)
(*             perturbation.                                               *)
(***************************************************************************)
EXTENDS Integers, Sequences, FiniteSets, TLC

\* ------------------------------------------------------------------ bounds
\* largest infeasibility count a basis is given
MaxInfeas == 1
\* cap on iteration_count_ (and on the iteration limit option)
MaxIter == 2
\* the updates allowed between two factorizations (simplex_update_limit) and
\* made before getNonsingularInverse
MaxBackUpdate == 4

\* ------------------------------------------------------- enumerated values
LimitStatuses ==
  {"kReachedTimeLimit", "kReachedIterationLimit",
   "kReachedDualObjectiveValueUpperBound"}

ModelStatuses ==
  {"kNotset", "kOptimal", "kInfeasible", "kUnbounded",
   "kUnboundedOrInfeasible"} \cup LimitStatuses

HighsStatuses == {"kOk", "kWarning", "kError"}

StrategyOptions ==
  {"kSimplexStrategyChoose", "kSimplexStrategyDual", "kSimplexStrategyPrimal"}

EdgeWeightOptions ==
  {"kSimplexDualEdgeWeightStrategyDantzig",
   "kSimplexDualEdgeWeightStrategySteepestEdge"}

\* ---- option values (HighsOptions) in force
options_dual_simplex_cost_perturbation_multiplier == 1
options_primal_simplex_bound_perturbation_multiplier == 1
options_simplex_iteration_limit == MaxIter
options_simplex_update_limit == MaxBackUpdate

VARIABLES
  \* ---- HEkk::solve
  pc,                       \* "idle" | "call" (solve about to call a driver) | "run" (inside the driver)
  stage,                    \* which driver call of solve: "none" | "initial" | "rerun" | "cleanup"
  driver,                   \* "none" | "primal" | "dual"
  scaled_model_status_,
  solve_bailout_,
  called_return_from_solve_,
  valid_backtracking_basis_,
  num_primal_infeasibility,
  num_dual_infeasibility,
  simplex_strategy,
  dual_edge_weight_strategy,
  dual_simplex_cost_perturbation_multiplier,
  primal_simplex_bound_perturbation_multiplier,
  iteration_count_,
  return_status,            \* the local return_status of the running solve
  \* ---- history (not program state)
  solve_return,             \* "none" while no solve has returned since the last entry, else its HighsStatus
  choose_calls,             \* calls of chooseSimplexStrategyThreads in this solve
  rfs_calls,                \* calls of returnFromSolve in this solve
  runs,                     \* the driver runs of this solve, in order
  assertion_failed,         \* an assert of the engine evaluated to false
  lastOp                    \* name of the last operation

solveVars ==
  <<pc, stage, driver, scaled_model_status_, solve_bailout_,
    called_return_from_solve_, valid_backtracking_basis_,
    num_primal_infeasibility, num_dual_infeasibility, simplex_strategy,
    dual_edge_weight_strategy, dual_simplex_cost_perturbation_multiplier,
    primal_simplex_bound_perturbation_multiplier, iteration_count_,
    return_status>>

historyVars ==
  <<solve_return, choose_calls, rfs_calls, runs, assertion_failed>>

VARIABLES
  \* ---- HighsLp (model_.lp_ of Highs; simplex_lp_ of HEkk)
  num_col_,
  num_row_,
  col_cost_,
  col_lower_,
  col_upper_,
  row_lower_,
  row_upper_,
  a_matrix_,                \* per column, the set of <<row index, value>> entries
  integrality_,
  user_bound_scale_,
  user_cost_scale_,
  \* ---- Highs
  basis_valid,              \* basis_.valid
  col_status,               \* basis_.col_status
  row_status,               \* basis_.row_status
  model_status_,
  solution_valid,           \* solution_.value_valid / dual_valid
  info_valid,               \* info_.valid
  last_return,              \* HighsStatus returned by the last interface call
  \* ---- SimplexBasis (simplex_basis_ / ekk_instance_.basis_)
  has_basis,
  basicIndex_,
  nonbasicFlag_,
  nonbasicMove_,
  \* ---- work arrays (simplex_info_)
  workLower_,
  workUpper_,
  workValue_,
  workDual_,
  bounds_perturbed,
  initialised_for_solve,    \* simplex_lp_status_.valid / status_.initialised_for_solve
  nvm_pending               \* history: initialiseBound ran and
                            \* initialiseNonbasicValueAndMove has not run since

lpVars ==
  <<num_col_, num_row_, col_cost_, col_lower_, col_upper_, row_lower_,
    row_upper_, a_matrix_, integrality_, user_bound_scale_,
    user_cost_scale_>>

hlVars ==
  <<basis_valid, col_status, row_status, model_status_, solution_valid,
    info_valid, last_return>>

basisVars == <<has_basis, basicIndex_, nonbasicFlag_, nonbasicMove_>>

workVars ==
  <<workLower_, workUpper_, workValue_, workDual_, bounds_perturbed,
    initialised_for_solve, nvm_pending>>

modelVars == <<lpVars, hlVars, basisVars, workVars>>

VARIABLES
  \* ---- factorization (simplex_lp_status_, simplex_info_, factor_)
  has_invert,
  has_fresh_invert,
  has_matrix,
  update_count,
  rank_deficiency,          \* factor_.rank_deficiency
  noPvR,                    \* factor_.noPvR: the rows with no pivot
  noPvC,                    \* factor_.noPvC: the variables replaced in the basis
  initialise_return,        \* value returned by the last
                            \* initialiseSimplexLpBasisAndFactor
  basic_variables,          \* the caller's array given to getBasicVariablesInterface
  computeFactor_calls       \* history: calls of computeFactor in the last operation

factorVars ==
  <<has_invert, has_fresh_invert, has_matrix, update_count, rank_deficiency,
    noPvR, noPvC, initialise_return, basic_variables, computeFactor_calls>>

VARIABLES
  \* ---- the caller of deleteColsInterface / deleteRowsInterface
  mask_,                    \* index_collection.mask_ after the last deletion
                            \* by mask
  before_add                \* history: the LP and the basis of Highs before the
                            \* last addColsInterface, and the number of
                            \* columns it was given

VARIABLE
  before_handle             \* history: the costs and bounds of the columns and
                            \* has_infinite_cost_ before the last handleInfCost

editVars == <<mask_, before_add, before_handle>>

VARIABLES
  \* ---- infinite costs (HighsLp, HighsLpMods)
  has_infinite_cost_,       \* lp.has_infinite_cost_
  sense_,                   \* lp.sense_
  mods_,                    \* lp.mods_.save_inf_cost_variable_index / _cost /
                            \* _lower / _upper, one record for each entry
  col_value,                \* solution_.col_value
  objective_function_value  \* info_.objective_function_value

infVars ==
  <<has_infinite_cost_, sense_, mods_, col_value, objective_function_value>>

VARIABLES
  \* ---- options, info and solution of Highs
  options_,                 \* options_.user_bound_scale, user_cost_scale,
                            \* primal_feasibility_tolerance,
                            \* dual_feasibility_tolerance
  info_,                    \* info_: the infeasibility measures and the
                            \* solution statuses
  solution_                 \* solution_.row_value, col_dual, row_dual

optVars == <<options_, info_, solution_>>

VARIABLES
  \* ---- the caller of basisSolveInterface and the vector it solves with
  solve_vector,             \* the HVector after ftran / btran: array, index,
                            \* count
  solution_vector,          \* the caller's array of num_row values
  solution_num_nz,          \* the caller's integer *solution_num_nz
  solution_indices,         \* the caller's array of num_row indices
  null_dereferenced         \* the last operation has dereferenced a null
                            \* pointer

callVars ==
  <<solve_vector, solution_vector, solution_num_nz, solution_indices,
    null_dereferenced>>

VARIABLES
  \* ---- simplex_info_: the threads chooseSimplexStrategyThreads sets
  min_threads,
  max_threads,
  num_threads,
  thread_options            \* what the last chooseSimplexStrategyThreads
                            \* was called with: options.simplex_strategy,
                            \* parallel, highs_min_threads,
                            \* highs_max_threads, and omp_max_threads

threadVars == <<min_threads, max_threads, num_threads, thread_options>>

VARIABLE
  \* ---- simplex_lp_status_
  has_fresh_rebuild,        \* the data are fresh from the driver's rebuild
  num_basic_logicals        \* simplex_info_.num_basic_logicals

VARIABLES
  \* ---- simplex_info_: the blocks on perturbation
  simplex_info_allow_cost_perturbation,   \* simplex_info_.allow_cost_perturbation
  simplex_info_allow_bound_perturbation,  \* simplex_info_.allow_bound_perturbation
  \* ---- history (not program state)
  at_entry                  \* the multipliers and blocks the last solve found at its entry

perturbVars ==
  <<simplex_info_allow_cost_perturbation,
    simplex_info_allow_bound_perturbation, at_entry>>

VARIABLES
  \* ---- simplex_info_: the costs, and the caller of correctDual
  workCost_,
  workShift_,
  costs_perturbed,
  free_infeasibility_count, \* the caller's integer *free_infeasibility_count
  correct_dual              \* the last correctDual: the value returned,
                            \* flip_dual_objective_value_change,
                            \* num_shift_skipped, and what it was called
                            \* with: allow_cost_perturbation and the
                            \* fractions drawn

dualVars ==
  <<workCost_, workShift_, costs_perturbed, free_infeasibility_count,
    correct_dual>>

VARIABLES
  \* ---- the edge weights of the dual driver and the backtracking basis
  workEdWt_null,            \* workEdWt_ == NULL: no edge weights attached
  workEdWt_,                \* the weight of each row of the basis
  workEdWtFull_,            \* the weights scattered by variable
  backtracking_basis_,      \* backtracking_basis_ with
                            \* backtracking_basis_costs_perturbed_,
                            \* _workShift_ and _edge_weights_
  backtracking_,
  update_limit,
  nonsingular_return        \* the value of the last getNonsingularInverse

backVars ==
  <<workEdWt_null, workEdWt_, workEdWtFull_, backtracking_basis_,
    backtracking_, update_limit, nonsingular_return>>

vars ==
  <<solveVars, historyVars, lastOp, modelVars, factorVars, editVars, infVars,
    optVars, callVars, threadVars, has_fresh_rebuild, num_basic_logicals,
    perturbVars, dualVars, backVars>>

\* ------------------------------------------------------ arrays and numbers
\* element iVar of a std::vector (indices from 0)
At(v, i) == v[i + 1]

\* std::vector::resize(len): kept entries keep their value, new ones are fill
Resize(v, len, fill) ==
  [k \in 1..len |-> IF k <= Len(v) THEN v[k] ELSE fill]

\* v with element i replaced
Put(v, i, x) == [v EXCEPT ![i + 1] = x]

Abs(x) == IF x < 0 THEN -x ELSE x

\* one unit of the model's numbers is 1/10: 1.0 is 10
kHighsInf == 1000000
highs_isInfinity(x) == x >= kHighsInf

kNonbasicFlagTrue == 1
kNonbasicFlagFalse == 0
kNonbasicMoveUp == 1
kNonbasicMoveDn == -1
kNonbasicMoveZe == 0

\* the state after construction of Highs and HEkk: an empty LP, no basis
InitModel ==
  /\ num_col_ = 0
  /\ num_row_ = 0
  /\ col_cost_ = <<>>
  /\ col_lower_ = <<>>
  /\ col_upper_ = <<>>
  /\ row_lower_ = <<>>
  /\ row_upper_ = <<>>
  /\ a_matrix_ = <<>>
  /\ integrality_ = <<>>
  /\ user_bound_scale_ = 0
  /\ user_cost_scale_ = 0
  /\ basis_valid = FALSE
  /\ col_status = <<>>
  /\ row_status = <<>>
  /\ model_status_ = "kNotset"
  /\ solution_valid = FALSE
  /\ info_valid = FALSE
  /\ last_return = "none"
  /\ has_basis = FALSE
  /\ basicIndex_ = <<>>
  /\ nonbasicFlag_ = <<>>
  /\ nonbasicMove_ = <<>>
  /\ workLower_ = <<>>
  /\ workUpper_ = <<>>
  /\ workValue_ = <<>>
  /\ workDual_ = <<>>
  /\ bounds_perturbed = FALSE
  /\ initialised_for_solve = FALSE
  /\ nvm_pending = FALSE

\* no factorization yet; the caller's array holds nothing
\* no deletion by mask and no addition of columns yet
InitEdit ==
  /\ mask_ = <<>>
  /\ before_add = [num_new_col |-> 0]
  /\ before_handle = [handled |-> FALSE]

\* a minimization without infinite costs, nothing saved
InitInf ==
  /\ has_infinite_cost_ = FALSE
  /\ sense_ = "kMinimize"
  /\ mods_ = <<>>
  /\ col_value = <<>>
  /\ objective_function_value = 0

\* the default options, no info and no solution
InitOpt ==
  /\ options_ = [user_bound_scale |-> 0, user_cost_scale |-> 0]
  /\ info_ = [valid |-> FALSE]
  /\ solution_ = [value_valid |-> FALSE]

\* no solve with the basis yet
InitCall ==
  /\ solve_vector = [array |-> <<>>, index |-> <<>>, count |-> 0]
  /\ solution_vector = <<>>
  /\ solution_num_nz = 0
  /\ solution_indices = <<>>
  /\ null_dereferenced = FALSE

\* HEkk before initialiseCost
InitDual ==
  /\ workCost_ = <<>>
  /\ workShift_ = <<>>
  /\ costs_perturbed = FALSE
  /\ free_infeasibility_count = 0
  /\ correct_dual =
       [returned |-> TRUE, flip_dual_objective_value_change |-> 0,
        num_shift_skipped |-> 0, allow_cost_perturbation |-> FALSE,
        fraction |-> <<>>]

\* HEkk with no driver constructed and no basis saved
InitBack ==
  /\ workEdWt_null = TRUE
  /\ workEdWt_ = <<>>
  /\ workEdWtFull_ = <<>>
  /\ backtracking_basis_ =
       [basicIndex_ |-> <<>>, nonbasicFlag_ |-> <<>>, nonbasicMove_ |-> <<>>,
        costs_perturbed |-> FALSE, workShift_ |-> <<>>,
        edge_weights_ |-> <<>>]
  /\ backtracking_ = FALSE
  /\ update_limit = options_simplex_update_limit
  /\ nonsingular_return = [returned |-> TRUE, rank_deficiency |-> 0]

\* HEkk with no solve made: the serial code
InitThreads ==
  /\ min_threads = 1
  /\ max_threads = 1
  /\ num_threads = 1
  /\ thread_options =
       [simplex_strategy |-> "kSimplexStrategyChoose", parallel |-> "choose",
        highs_min_threads |-> 1, highs_max_threads |-> 1,
        omp_max_threads |-> 0]

InitFactor ==
  /\ has_invert = FALSE
  /\ has_fresh_invert = FALSE
  /\ has_fresh_rebuild = FALSE
  /\ num_basic_logicals = 0
  /\ has_matrix = FALSE
  /\ update_count = 0
  /\ rank_deficiency = 0
  /\ noPvR = <<>>
  /\ noPvC = <<>>
  /\ initialise_return = 0
  /\ basic_variables = <<>>
  /\ computeFactor_calls = 0

\* ------------------------------------------------------------- HEkk::solve

\* HighsStatus interpretCallStatus(call_status, from_return_status): the worse
Worse(a, b) ==
  IF a = "kError" \/ b = "kError" THEN "kError"
  ELSE IF a = "kWarning" \/ b = "kWarning" THEN "kWarning"
  ELSE "kOk"

\* variant: optimality declared when either count is zero
InitialiseForSolveStatus_Either(np, nd) ==
  IF np = 0 \/ nd = 0 THEN "kOptimal" ELSE "kNotset"

\* initialiseForSolve: the model status set from the infeasibility counts
InitialiseForSolveStatus(np, nd) ==
  IF np = 0 /\ nd = 0 THEN "kOptimal" ELSE "kNotset"

\* chooseSimplexStrategyThreads: the strategy from the option (serial code)
ChooseSimplexStrategy(option, np) ==
  IF option = "kSimplexStrategyChoose"
  THEN IF np > 0 THEN "kSimplexStrategyDual" ELSE "kSimplexStrategyPrimal"
  ELSE option

InitSolve ==
  /\ pc = "idle"
  /\ stage = "none"
  /\ driver = "none"
  /\ scaled_model_status_ = "kNotset"
  /\ solve_bailout_ = FALSE
  /\ called_return_from_solve_ = FALSE
  /\ valid_backtracking_basis_ = FALSE
  /\ num_primal_infeasibility = 0
  /\ num_dual_infeasibility = 0
  /\ simplex_strategy = "kSimplexStrategyChoose"
  /\ dual_edge_weight_strategy \in EdgeWeightOptions
  /\ dual_simplex_cost_perturbation_multiplier =
       options_dual_simplex_cost_perturbation_multiplier
  /\ primal_simplex_bound_perturbation_multiplier =
       options_primal_simplex_bound_perturbation_multiplier
  /\ iteration_count_ = 0
  /\ return_status = "kOk"

\* HighsSimplexInfo as constructed: perturbation is allowed; no solve made
InitPerturb ==
  /\ simplex_info_allow_cost_perturbation = TRUE
  /\ simplex_info_allow_bound_perturbation = TRUE
  /\ at_entry =
       [dual_simplex_cost_perturbation_multiplier |->
          options_dual_simplex_cost_perturbation_multiplier,
        primal_simplex_bound_perturbation_multiplier |->
          options_primal_simplex_bound_perturbation_multiplier,
        allow_cost_perturbation |-> TRUE,
        allow_bound_perturbation |-> TRUE]

InitHistory ==
  /\ solve_return = "none"
  /\ choose_calls = 0
  /\ rfs_calls = 0
  /\ runs = <<>>
  /\ assertion_failed = FALSE
  /\ lastOp = "none"

\* variant: the multiplier that simplex_info_ holds is kept
UpdatedMultiplier_Kept(option, held) == held

\* updateSimplexOptions: a perturbation multiplier of simplex_info_ (held)
\* after it has been updated from HighsOptions
UpdatedMultiplier(option, held) == option

\* HEkk::solve from its entry to the call of the initial driver (or to the
\* early return).  np, nd: the counts computeSimplexInfeasible finds for the
\* basis; strategy_option: options_.simplex_strategy.
Solve(np, nd, strategy_option) ==
  /\ pc = "idle"
  /\ iteration_count_' = 0
  /\ dual_simplex_cost_perturbation_multiplier' =
       UpdatedMultiplier(options_dual_simplex_cost_perturbation_multiplier,
                         dual_simplex_cost_perturbation_multiplier)
  /\ primal_simplex_bound_perturbation_multiplier' =
       UpdatedMultiplier(options_primal_simplex_bound_perturbation_multiplier,
                         primal_simplex_bound_perturbation_multiplier)
  /\ num_primal_infeasibility' = np
  /\ num_dual_infeasibility' = nd
  /\ scaled_model_status_' = InitialiseForSolveStatus(np, nd)
  /\ runs' = <<>>
  /\ rfs_calls' = 0
  /\ IF scaled_model_status_' = "kOptimal"
     THEN /\ pc' = "idle"
          /\ solve_return' = "kOk"
          /\ choose_calls' = 0
          /\ UNCHANGED <<stage, driver, simplex_strategy, return_status,
                         assertion_failed>>
     ELSE /\ choose_calls' = 1
          /\ assertion_failed' = (assertion_failed \/ ~(nd > 0 \/ np > 0))
          /\ simplex_strategy' = ChooseSimplexStrategy(strategy_option, np)
          /\ return_status' = "kOk"
          /\ solve_return' = "none"
          /\ pc' = "call"
          /\ stage' = "initial"
          /\ driver' = IF simplex_strategy' = "kSimplexStrategyPrimal"
                       THEN "primal" ELSE "dual"
  /\ lastOp' = "solve"
  /\ UNCHANGED <<solve_bailout_, called_return_from_solve_,
                 valid_backtracking_basis_, dual_edge_weight_strategy>>

\* ---- the algorithm drivers (HEkkPrimal::solve / HEkkDual::solve), by contract

\* Entry of a driver: returnFromSolve asserts !called_return_from_solve_ on
\* each of the up to three driver runs of one solve and the poll asserts a
\* limit status under solve_bailout_; HEkk never clears either flag, so the
\* driver does at its entry.
DriverInitialise ==
  /\ pc = "call"
  /\ pc' = "run"
  /\ solve_bailout_' = FALSE
  /\ called_return_from_solve_' = FALSE
  /\ lastOp' = "driverInitialise"
  /\ UNCHANGED <<stage, driver, scaled_model_status_,
                 valid_backtracking_basis_, num_primal_infeasibility,
                 num_dual_infeasibility, simplex_strategy,
                 dual_edge_weight_strategy,
                 dual_simplex_cost_perturbation_multiplier,
                 primal_simplex_bound_perturbation_multiplier,
                 iteration_count_, return_status,
                 historyVars>>

\* One simplex iteration of the running driver.
DriverIterate ==
  /\ pc = "run"
  /\ ~solve_bailout_
  /\ iteration_count_ < MaxIter
  /\ iteration_count_' = iteration_count_ + 1
  /\ lastOp' = "iterate"
  /\ UNCHANGED <<pc, stage, driver, scaled_model_status_, solve_bailout_,
                 called_return_from_solve_, valid_backtracking_basis_,
                 num_primal_infeasibility, num_dual_infeasibility,
                 simplex_strategy, dual_edge_weight_strategy,
                 dual_simplex_cost_perturbation_multiplier,
                 primal_simplex_bound_perturbation_multiplier,
                 return_status, historyVars>>

\* The dual driver's objective-bound bailout: the third status the engine's
\* assertions admit under solve_bailout_.
DualObjectiveBound ==
  /\ pc = "run"
  /\ driver = "dual"
  /\ ~solve_bailout_
  /\ solve_bailout_' = TRUE
  /\ scaled_model_status_' = "kReachedDualObjectiveValueUpperBound"
  /\ lastOp' = "bailoutOnDualObjective"
  /\ UNCHANGED <<pc, stage, driver, called_return_from_solve_,
                 valid_backtracking_basis_, num_primal_infeasibility,
                 num_dual_infeasibility, simplex_strategy,
                 dual_edge_weight_strategy,
                 dual_simplex_cost_perturbation_multiplier,
                 primal_simplex_bound_perturbation_multiplier,
                 iteration_count_, return_status,
                 historyVars>>

\* putBacktrackingBasis, reached from the driver's rebuild through
\* getNonsingularInverse when the factorization has full rank.
PutBacktrackingBasis ==
  /\ pc = "run"
  /\ valid_backtracking_basis_' = TRUE
  /\ lastOp' = "putBacktrackingBasis"
  /\ UNCHANGED <<pc, stage, driver, scaled_model_status_, solve_bailout_,
                 called_return_from_solve_, num_primal_infeasibility,
                 num_dual_infeasibility, simplex_strategy,
                 dual_edge_weight_strategy,
                 dual_simplex_cost_perturbation_multiplier,
                 primal_simplex_bound_perturbation_multiplier,
                 iteration_count_, return_status,
                 historyVars>>

\* ---- HEkk::bailoutOnTimeIterations

\* the branch taken; time_over: timer_.readRunHighsClock() > options_.time_limit
BailoutBranch(time_over) ==
  IF solve_bailout_ THEN "already"
  ELSE IF time_over THEN "time"
  ELSE IF iteration_count_ >= options_simplex_iteration_limit THEN "iterations"
  ELSE "continue"

\* variant: the limit branches latch the flag but leave the status
BailoutStatus_Unset(time_over) ==
  scaled_model_status_

\* the model status the poll leaves
BailoutStatus(time_over) ==
  CASE BailoutBranch(time_over) = "time" -> "kReachedTimeLimit"
    [] BailoutBranch(time_over) = "iterations" -> "kReachedIterationLimit"
    [] OTHER -> scaled_model_status_

BailoutOnTimeIterations(time_over) ==
  /\ pc = "run"
  /\ solve_bailout_' = (BailoutBranch(time_over) # "continue")
  /\ scaled_model_status_' = BailoutStatus(time_over)
  /\ assertion_failed' =
       (assertion_failed
          \/ (solve_bailout_ /\ scaled_model_status_ \notin LimitStatuses))
  /\ lastOp' = "bailoutOnTimeIterations"
  /\ UNCHANGED <<pc, stage, driver, called_return_from_solve_,
                 valid_backtracking_basis_, num_primal_infeasibility,
                 num_dual_infeasibility, simplex_strategy,
                 dual_edge_weight_strategy,
                 dual_simplex_cost_perturbation_multiplier,
                 primal_simplex_bound_perturbation_multiplier,
                 iteration_count_, return_status,
                 solve_return, choose_calls, rfs_calls, runs>>

\* ---- HEkk::returnFromSolve

\* its two assertions, at model status st
ReturnFromSolveAsserts(st) ==
  /\ solve_bailout_ => st \in LimitStatuses
  /\ ~called_return_from_solve_

\* variant: the backtracking basis stays valid
ReturnFromSolve_KeepsBacktracking ==
  /\ called_return_from_solve_' = TRUE
  /\ UNCHANGED valid_backtracking_basis_
  /\ rfs_calls' = rfs_calls + 1

ReturnFromSolve ==
  /\ called_return_from_solve_' = TRUE
  /\ valid_backtracking_basis_' = FALSE
  /\ rfs_calls' = rfs_calls + 1

\* ---- HEkk::solve after a driver has returned, and HEkk::cleanup

\* variant: the Error return is tested before the primal re-run
AfterDriver_ErrorFirst(st, rs) ==
  IF stage = "cleanup" THEN "return"
  ELSE IF rs = "kError" THEN "return"
  ELSE IF stage = "initial" /\ driver = "dual" /\ st = "kUnboundedOrInfeasible"
  THEN "rerun"
  ELSE IF st = "kNotset" THEN "cleanup"
  ELSE "return"

\* variant: solve goes on to cleanup whatever the drivers returned
AfterDriver_IgnoresError(st, rs) ==
  IF stage = "cleanup" THEN "return"
  ELSE IF stage = "initial" /\ driver = "dual" /\ st = "kUnboundedOrInfeasible"
  THEN "rerun"
  ELSE IF st = "kNotset" THEN "cleanup"
  ELSE "return"

\* variant: cleanup is called again while the model status is not set, up to
\* a fifth driver run
AfterDriver_CleanupAgain(st, rs) ==
  IF stage = "cleanup"
  THEN IF st = "kNotset" /\ rs # "kError" /\ Len(runs) < 4 THEN "cleanup"
       ELSE "return"
  ELSE IF stage = "initial" /\ driver = "dual" /\ st = "kUnboundedOrInfeasible"
  THEN "rerun"
  ELSE IF rs = "kError" THEN "return"
  ELSE IF st = "kNotset" THEN "cleanup"
  ELSE "return"

\* what solve does next, the driver having left model status st and solve's
\* return_status being rs
AfterDriver(st, rs) ==
  IF stage = "cleanup" THEN "return"
  ELSE IF stage = "initial" /\ driver = "dual" /\ st = "kUnboundedOrInfeasible"
  THEN "rerun"
  ELSE IF rs = "kError" THEN "return"
  ELSE IF st = "kNotset" THEN "cleanup"
  ELSE "return"

\* cleanup's assertion on the counts
CleanupAsserts(np, nd) ==
  IF np # 0 THEN nd = 0 ELSE np = 0

\* variant: the branch is taken on the absence of primal infeasibilities
Cleanup_WrongBranch(np) ==
  IF np = 0
  THEN /\ simplex_strategy' = "kSimplexStrategyDual"
       /\ dual_simplex_cost_perturbation_multiplier' = 0
       /\ dual_edge_weight_strategy' = "kSimplexDualEdgeWeightStrategyDevex"
       /\ driver' = "dual"
       /\ UNCHANGED primal_simplex_bound_perturbation_multiplier
  ELSE /\ simplex_strategy' = "kSimplexStrategyPrimal"
       /\ primal_simplex_bound_perturbation_multiplier' = 0
       /\ driver' = "primal"
       /\ UNCHANGED <<dual_simplex_cost_perturbation_multiplier,
                      dual_edge_weight_strategy>>

\* cleanup up to the call of its driver
Cleanup(np) ==
  IF np # 0
  THEN /\ simplex_strategy' = "kSimplexStrategyDual"
       /\ dual_simplex_cost_perturbation_multiplier' = 0
       /\ dual_edge_weight_strategy' = "kSimplexDualEdgeWeightStrategyDevex"
       /\ driver' = "dual"
       /\ UNCHANGED primal_simplex_bound_perturbation_multiplier
  ELSE /\ simplex_strategy' = "kSimplexStrategyPrimal"
       /\ primal_simplex_bound_perturbation_multiplier' = 0
       /\ driver' = "primal"
       /\ UNCHANGED <<dual_simplex_cost_perturbation_multiplier,
                      dual_edge_weight_strategy>>

\* the statuses a driver can leave when it returns
DriverOutcomes ==
  IF solve_bailout_ THEN {scaled_model_status_}
  ELSE {"kNotset", "kOptimal", "kInfeasible", "kUnbounded"}
         \cup (IF driver = "dual" THEN {"kUnboundedOrInfeasible"} ELSE {})

\* A driver returns call_status through returnFromSolve, leaving model status
\* st and infeasibility counts np, nd; solve continues to its next driver
\* call or to its return.
DriverReturn(st, call_status, np, nd) ==
  /\ pc = "run"
  /\ st \in DriverOutcomes
  /\ st = "kOptimal" => (np = 0 /\ nd = 0)
  /\ st = "kNotset" => ((np > 0) # (nd > 0))
  /\ scaled_model_status_' = st
  /\ num_primal_infeasibility' = np
  /\ num_dual_infeasibility' = nd
  /\ ReturnFromSolve
  /\ LET rs == Worse(call_status, return_status)
         next == AfterDriver(st, rs)
     IN /\ return_status' = rs
        /\ runs' = Append(runs, [stage |-> stage, driver |-> driver,
                                 status |-> st, call |-> call_status,
                                 ret |-> rs])
        /\ assertion_failed' =
             (assertion_failed \/ ~ReturnFromSolveAsserts(st)
                \/ (next = "cleanup" /\ ~CleanupAsserts(np, nd)))
        /\ CASE next = "rerun" ->
                  /\ pc' = "call"
                  /\ stage' = "rerun"
                  /\ driver' = "primal"
                  /\ UNCHANGED <<simplex_strategy, dual_edge_weight_strategy,
                                 dual_simplex_cost_perturbation_multiplier,
                                 primal_simplex_bound_perturbation_multiplier,
                                 solve_return>>
             [] next = "cleanup" ->
                  /\ pc' = "call"
                  /\ stage' = "cleanup"
                  /\ Cleanup(np)
                  /\ UNCHANGED solve_return
             [] OTHER ->
                  /\ pc' = "idle"
                  /\ stage' = "none"
                  /\ driver' = "none"
                  /\ solve_return' = rs
                  /\ UNCHANGED <<simplex_strategy, dual_edge_weight_strategy,
                                 dual_simplex_cost_perturbation_multiplier,
                                 primal_simplex_bound_perturbation_multiplier>>
  /\ lastOp' = "driverReturn"
  /\ UNCHANGED <<solve_bailout_, iteration_count_, choose_calls>>

\* ---- specification of the solve control flow
InitSolveSpec ==
  /\ InitSolve
  /\ InitHistory
  /\ InitPerturb
  /\ InitModel
  /\ InitFactor
  /\ InitEdit
  /\ InitInf
  /\ InitOpt
  /\ InitCall
  /\ InitThreads
  /\ InitDual
  /\ InitBack

NextSolveStep ==
  \/ \E np \in 0..MaxInfeas, nd \in 0..MaxInfeas, so \in StrategyOptions :
       Solve(np, nd, so)
  \/ DriverInitialise
  \/ DriverIterate
  \/ DualObjectiveBound
  \/ PutBacktrackingBasis
  \/ \E time_over \in BOOLEAN : BailoutOnTimeIterations(time_over)
  \/ \E st \in ModelStatuses, cs \in HighsStatuses,
        np \in 0..MaxInfeas, nd \in 0..MaxInfeas :
       DriverReturn(st, cs, np, nd)

NextSolve ==
  NextSolveStep /\ UNCHANGED <<perturbVars, modelVars, factorVars, editVars, infVars, optVars,
              callVars, threadVars, has_fresh_rebuild, num_basic_logicals, dualVars,
                backVars>>

SpecSolve == InitSolveSpec /\ [][NextSolve]_vars

\* ------------------------------------------------ properties of SpecSolve

\* a solve has returned and no other has been entered since
Returned == pc = "idle" /\ solve_return # "none"

\* the driver runs of this solve made at the given stage
RunsOfStage(s) == {i \in DOMAIN runs : runs[i].stage = s}

\* C5 as stated: in every reachable state solve_bailout_ implies that the
\* model status is one of the three limit statuses.
C5_BailoutImpliesLimitStatus ==
  solve_bailout_ => scaled_model_status_ \in LimitStatuses

\* C5 amended: no assertion of the engine fails; solve_bailout_ implies a
\* limit status while a driver runs and from then on until the next entry of
\* HEkk::solve (whose initialiseForSolve overwrites the status and leaves the
\* flag); a poll that finds the flag set returns true (the flag) and leaves the
\* status.
C5_BailoutConsistent ==
  /\ [](~assertion_failed)
  /\ []((solve_bailout_ /\ (pc = "run" \/ runs # <<>>))
          => scaled_model_status_ \in LimitStatuses)
  /\ [][(lastOp' = "bailoutOnTimeIterations" /\ solve_bailout_)
          => (solve_bailout_' /\ scaled_model_status_' = scaled_model_status_)]_vars

\* a poll that found the flag already latched (by the dual objective bound)
C5_Witness ==
  /\ lastOp = "bailoutOnTimeIterations"
  /\ solve_bailout_
  /\ scaled_model_status_ = "kReachedDualObjectiveValueUpperBound"

\* C7 as stated: whenever solve has returned, returnFromSolve was invoked
\* exactly once in it and valid_backtracking_basis_ is false.
C7_ExactlyOncePerSolve ==
  Returned => (rfs_calls = 1 /\ ~valid_backtracking_basis_)

\* C7 amended: returnFromSolve is invoked exactly once per driver run, so when
\* solve has returned it was invoked as often as drivers ran: not at all on
\* the early return, else once for the initial run plus once for the primal
\* re-run and once for the cleanup run where they happen; and
\* valid_backtracking_basis_ is false.
C7_OncePerDriverRun ==
  /\ ~assertion_failed
  /\ rfs_calls = Len(runs)
  /\ Returned =>
       /\ ~valid_backtracking_basis_
       /\ (rfs_calls = 0) <=> (choose_calls = 0)
       /\ rfs_calls = Cardinality(RunsOfStage("initial"))
                        + Cardinality(RunsOfStage("rerun"))
                        + Cardinality(RunsOfStage("cleanup"))
       /\ Cardinality(RunsOfStage("initial")) <= 1
       /\ Cardinality(RunsOfStage("rerun")) <= 1
       /\ Cardinality(RunsOfStage("cleanup")) <= 1

\* a solve that returned after a dual run, the primal re-run and cleanup
C7_Witness ==
  /\ Returned
  /\ rfs_calls = 3
  /\ runs[2].stage = "rerun"
  /\ runs[3].stage = "cleanup"

\* C8: when solve has returned and the dual driver it invoked left
\* UnboundedOrInfeasible, the primal driver was re-run exactly once, directly
\* after that dual run; and if the re-run left Unbounded or Infeasible, no
\* cleanup ran and that is the model status on return.
C8_PrimalRerun ==
  (Returned /\ Len(runs) >= 1 /\ runs[1].driver = "dual"
     /\ runs[1].status = "kUnboundedOrInfeasible")
  => /\ Len(runs) >= 2
     /\ runs[2].stage = "rerun"
     /\ runs[2].driver = "primal"
     /\ RunsOfStage("rerun") = {2}
     /\ runs[2].status \in {"kUnbounded", "kInfeasible"}
          => /\ Len(runs) = 2
             /\ scaled_model_status_ = runs[2].status

\* a returned solve whose dual run ended in Error and UnboundedOrInfeasible
\* and whose primal re-run found the LP unbounded
C8_Witness ==
  /\ Returned
  /\ Len(runs) = 2
  /\ runs[1].status = "kUnboundedOrInfeasible"
  /\ runs[1].ret = "kError"
  /\ runs[2].driver = "primal"
  /\ scaled_model_status_ = "kUnbounded"

C10_EarlyReturnIffFeasible ==
  lastOp = "solve" =>
    /\ ~assertion_failed
    /\ (num_primal_infeasibility = 0 /\ num_dual_infeasibility = 0)
         <=> (/\ Returned
              /\ solve_return = "kOk"
              /\ scaled_model_status_ = "kOptimal"
              /\ choose_calls = 0
              /\ runs = <<>>)
    /\ ~Returned =>
         /\ scaled_model_status_ = "kNotset"
         /\ choose_calls = 1
         /\ num_primal_infeasibility > 0 \/ num_dual_infeasibility > 0
         /\ pc = "call"
         /\ stage = "initial"

\* an early return on an optimal basis, in a solve after one that bailed out
C10_Witness ==
  /\ lastOp = "solve"
  /\ Returned
  /\ scaled_model_status_ = "kOptimal"
  /\ solve_bailout_

\* ================================================================ the basis
\* HEkk::setBasis, getHighsBasis, the work arrays, updatePivots; the interface
\* operations that extend the basis with the LP.

num_tot == num_col_ + num_row_

\* the bounds of variable iVar as the engine sees them: a column's bounds, or
\* the negated bounds of the row of a logical (initialiseLpColBound,
\* initialiseLpRowBound)
LpLower(iVar) ==
  IF iVar < num_col_ THEN At(col_lower_, iVar)
  ELSE -At(row_upper_, iVar - num_col_)

LpUpper(iVar) ==
  IF iVar < num_col_ THEN At(col_upper_, iVar)
  ELSE -At(row_lower_, iVar - num_col_)

\* the move given to a nonbasic variable from its bounds alone: setBasis,
\* setNonbasicMove (no solution known)
MoveFromBounds(lower, upper) ==
  IF lower = upper THEN kNonbasicMoveZe
  ELSE IF ~highs_isInfinity(-lower)
       THEN IF ~highs_isInfinity(upper)
            THEN IF Abs(lower) < Abs(upper) THEN kNonbasicMoveUp
                 ELSE kNonbasicMoveDn
            ELSE kNonbasicMoveUp
       ELSE IF ~highs_isInfinity(upper) THEN kNonbasicMoveDn
            ELSE kNonbasicMoveZe

\* nonbasicMove_[iVar] after setBasis(): written for the columns; for the
\* logicals the entry is whatever resize() left there
SetBasisMove(iVar) ==
  IF iVar < num_col_
  THEN MoveFromBounds(At(col_lower_, iVar), At(col_upper_, iVar))
  ELSE At(Resize(nonbasicMove_, num_tot, 0), iVar)

\* HighsStatus HEkk::setBasis(): the logical basis
SetBasis ==
  /\ nonbasicFlag_' =
       [k \in 1..num_tot |->
          IF k - 1 < num_col_ THEN kNonbasicFlagTrue ELSE kNonbasicFlagFalse]
  /\ nonbasicMove_' = [k \in 1..num_tot |-> SetBasisMove(k - 1)]
  /\ basicIndex_' = [i \in 1..num_row_ |-> num_col_ + (i - 1)]
  /\ has_basis' = TRUE
  /\ lastOp' = "setBasis"
  /\ UNCHANGED <<lpVars, hlVars, workVars, solveVars, historyVars>>

\* the positions of the basic statuses of a HighsBasis, columns then rows
BasicVarsOf(cs, rs) ==
  {j \in 0..(Len(cs) - 1) : At(cs, j) = "kBasic"}
    \cup {Len(cs) + i : i \in {k \in 0..(Len(rs) - 1) : At(rs, k) = "kBasic"}}

\* the k-th smallest element (k from 1) of a finite set of integers
RECURSIVE KthSmallest(_, _)
KthSmallest(S, k) ==
  LET lo == CHOOSE x \in S : \A y \in S : x <= y
  IN IF k = 1 THEN lo ELSE KthSmallest(S \ {lo}, k - 1)

\* variant: a row is given the move of a column
MoveOfStatus_RowAsColumn(iVar, status) ==
  IF status = "kLower"
  THEN IF LpLower(iVar) = LpUpper(iVar) THEN kNonbasicMoveZe
       ELSE kNonbasicMoveUp
  ELSE IF status = "kUpper" THEN kNonbasicMoveDn ELSE kNonbasicMoveZe

\* nonbasicMove of a nonbasic variable from its HighsBasisStatus
MoveOfStatus(iVar, status) ==
  IF iVar < num_col_
  THEN IF status = "kLower"
       THEN IF LpLower(iVar) = LpUpper(iVar) THEN kNonbasicMoveZe
            ELSE kNonbasicMoveUp
       ELSE IF status = "kUpper" THEN kNonbasicMoveDn ELSE kNonbasicMoveZe
  ELSE IF status = "kLower"
       THEN IF At(row_lower_, iVar - num_col_) = At(row_upper_, iVar - num_col_)
            THEN kNonbasicMoveZe
            ELSE kNonbasicMoveDn
       ELSE IF status = "kUpper" THEN kNonbasicMoveUp ELSE kNonbasicMoveZe

\* HighsStatus HEkk::setBasis(const HighsBasis& basis), called with the basis
\* held by Highs.  debugBasisConsistent (not in these sources) refuses a basis
\* that is not valid, whose vectors do not have the LP's dimensions or that
\* does not have num_row basic variables.
SetBasisHighs ==
  LET consistent ==
        /\ basis_valid
        /\ Len(col_status) = num_col_
        /\ Len(row_status) = num_row_
        /\ Cardinality(BasicVarsOf(col_status, row_status)) = num_row_
      basic == BasicVarsOf(col_status, row_status)
      statusOf(iVar) ==
        IF iVar < num_col_ THEN At(col_status, iVar)
        ELSE At(row_status, iVar - num_col_)
  IN /\ IF ~consistent
        THEN /\ last_return' = "kError"
             /\ UNCHANGED basisVars
        ELSE /\ last_return' = "kOk"
             /\ nonbasicFlag_' =
                  [k \in 1..num_tot |->
                     IF (k - 1) \in basic THEN kNonbasicFlagFalse
                     ELSE kNonbasicFlagTrue]
             /\ nonbasicMove_' =
                  [k \in 1..num_tot |->
                     IF (k - 1) \in basic THEN 0
                     ELSE MoveOfStatus(k - 1, statusOf(k - 1))]
             /\ basicIndex_' = [i \in 1..num_row_ |-> KthSmallest(basic, i)]
             /\ has_basis' = TRUE
     /\ lastOp' = "setBasisHighs"
     /\ UNCHANGED <<lpVars, basis_valid, col_status, row_status,
                    model_status_, solution_valid, info_valid, workVars,
                    solveVars, historyVars>>

\* the HighsBasisStatus getHighsBasis gives variable iVar
StatusOfMove(iVar) ==
  IF At(nonbasicFlag_, iVar) = kNonbasicFlagFalse THEN "kBasic"
  ELSE IF At(nonbasicMove_, iVar) = kNonbasicMoveUp
       THEN IF iVar < num_col_ THEN "kLower" ELSE "kUpper"
  ELSE IF At(nonbasicMove_, iVar) = kNonbasicMoveDn
       THEN IF iVar < num_col_ THEN "kUpper" ELSE "kLower"
  ELSE IF LpLower(iVar) = LpUpper(iVar) THEN "kLower" ELSE "kZero"

\* HighsBasis HEkk::getHighsBasis(), the result stored as the basis of Highs.
\* The engine's arrays have the LP's dimensions (they are indexed to num_tot).
GetHighsBasis ==
  /\ has_basis
  /\ Len(nonbasicFlag_) = num_tot
  /\ Len(nonbasicMove_) = num_tot
  /\ col_status' = [k \in 1..num_col_ |-> StatusOfMove(k - 1)]
  /\ row_status' = [k \in 1..num_row_ |-> StatusOfMove(num_col_ + k - 1)]
  /\ basis_valid' = TRUE
  /\ lastOp' = "getHighsBasis"
  /\ UNCHANGED <<lpVars, model_status_, solution_valid, info_valid,
                 last_return, basisVars, workVars, solveVars, historyVars>>

\* ---------------------------------------------------------- the work arrays

\* the number 1.0 in the model's unit
Unit == 10
\* random_value * 5e-7 of initialiseBound, taken as one unit (0.1)
RandomBase == 1
\* the bound 1000 given to a free column in dual phase 1
Phase1FreeBound == 1000 * Unit

Algorithms == {"kPrimal", "kDual"}
SolvePhases == {"kSolvePhase1", "kSolvePhase2"}

\* allocateWorkAndBaseArrays: resize() of each work array to num_tot
Allocated(w) == Resize(w, num_tot, 0)

\* initialiseBound, primal perturbation of one finite lower / upper bound
PerturbedLower(lower, base) ==
  IF lower > -kHighsInf
  THEN IF lower < -Unit THEN lower - (base * (-lower)) \div Unit
       ELSE IF lower < Unit THEN lower - base
       ELSE lower - (base * lower) \div Unit
  ELSE lower

PerturbedUpper(upper, base) ==
  IF upper < kHighsInf
  THEN IF upper < -Unit THEN upper + (base * (-upper)) \div Unit
       ELSE IF upper < Unit THEN upper + base
       ELSE upper + (base * upper) \div Unit
  ELSE upper

\* variant: a variable with a finite lower bound only gets [0, 0]
Phase1Bounds_LowerFixed(iVar, lower, upper) ==
  IF lower = -kHighsInf /\ upper = kHighsInf
  THEN IF iVar >= num_col_ THEN <<lower, upper>>
       ELSE <<-Phase1FreeBound, Phase1FreeBound>>
  ELSE IF lower = -kHighsInf THEN <<-Unit, 0>>
  ELSE <<0, 0>>

\* initialiseBound, dual phase 1: the bounds that replace those of the LP
Phase1Bounds(iVar, lower, upper) ==
  IF lower = -kHighsInf /\ upper = kHighsInf
  THEN IF iVar >= num_col_ THEN <<lower, upper>>
       ELSE <<-Phase1FreeBound, Phase1FreeBound>>
  ELSE IF lower = -kHighsInf THEN <<-Unit, 0>>
  ELSE IF upper = kHighsInf THEN <<0, Unit>>
  ELSE <<0, 0>>

\* which of its three ways initialiseBound takes
InitialiseBoundBranch(algorithm, solve_phase, perturb) ==
  IF algorithm = "kPrimal"
  THEN IF ~perturb \/ primal_simplex_bound_perturbation_multiplier = 0
       THEN "lp" ELSE "perturbed"
  ELSE IF solve_phase = "kSolvePhase2" THEN "lp" ELSE "phase1"

\* workLower_/workUpper_[iVar] as <<lower, upper>> after initialiseBound
InitialiseBoundBounds(branch, iVar) ==
  LET lower == LpLower(iVar)
      upper == LpUpper(iVar)
      base == primal_simplex_bound_perturbation_multiplier * RandomBase
  IN IF branch = "lp" THEN <<lower, upper>>
     ELSE IF branch = "phase1" THEN Phase1Bounds(iVar, lower, upper)
     ELSE IF At(nonbasicFlag_, iVar) = kNonbasicFlagTrue /\ lower = upper
          THEN <<lower, upper>>
          ELSE <<PerturbedLower(lower, base), PerturbedUpper(upper, base)>>

\* workValue_[iVar] after initialiseBound: written only on the perturbing
\* branch, for a nonbasic variable (not fixed) with a nonzero move
InitialiseBoundValue(branch, iVar) ==
  LET b == InitialiseBoundBounds(branch, iVar)
      fixed == LpLower(iVar) = LpUpper(iVar)
  IN IF branch = "perturbed"
        /\ At(nonbasicFlag_, iVar) = kNonbasicFlagTrue /\ ~fixed
     THEN IF At(nonbasicMove_, iVar) > 0 THEN b[1]
          ELSE IF At(nonbasicMove_, iVar) < 0 THEN b[2]
          ELSE At(workValue_, iVar)
     ELSE At(workValue_, iVar)

\* the engine's arrays have the dimensions of the LP
BasisDimensioned ==
  /\ Len(nonbasicFlag_) = num_tot
  /\ Len(nonbasicMove_) = num_tot
  /\ Len(basicIndex_) = num_row_

WorkDimensioned ==
  /\ Len(workLower_) = num_tot
  /\ Len(workUpper_) = num_tot
  /\ Len(workValue_) = num_tot
  /\ Len(workDual_) = num_tot

\* void HEkk::initialiseBound(algorithm, solve_phase, perturb)
InitialiseBound(algorithm, solve_phase, perturb) ==
  LET branch == InitialiseBoundBranch(algorithm, solve_phase, perturb)
  IN /\ has_basis
     /\ BasisDimensioned
     /\ WorkDimensioned
     /\ workLower_' =
          [k \in 1..num_tot |-> InitialiseBoundBounds(branch, k - 1)[1]]
     /\ workUpper_' =
          [k \in 1..num_tot |-> InitialiseBoundBounds(branch, k - 1)[2]]
     /\ workValue_' =
          [k \in 1..num_tot |-> InitialiseBoundValue(branch, k - 1)]
     /\ bounds_perturbed' = (branch = "perturbed")
     /\ nvm_pending' = TRUE
     /\ lastOp' = "initialiseBound"
     /\ UNCHANGED <<workDual_, initialised_for_solve, lpVars, hlVars,
                    basisVars, solveVars, historyVars>>

\* initialiseNonbasicValueAndMove for one variable: <<move, value>> from the
\* flag, the working bounds and the move held so far
NonbasicValueAndMove(flag, lower, upper, original_move, value) ==
  IF flag = kNonbasicFlagFalse THEN <<kNonbasicMoveZe, value>>
  ELSE IF lower = upper THEN <<kNonbasicMoveZe, lower>>
  ELSE IF ~highs_isInfinity(-lower)
       THEN IF ~highs_isInfinity(upper)
            THEN IF original_move = kNonbasicMoveUp
                 THEN <<kNonbasicMoveUp, lower>>
                 ELSE IF original_move = kNonbasicMoveDn
                      THEN <<kNonbasicMoveDn, upper>>
                      ELSE <<kNonbasicMoveUp, lower>>
            ELSE <<kNonbasicMoveUp, lower>>
       ELSE IF ~highs_isInfinity(upper) THEN <<kNonbasicMoveDn, upper>>
            ELSE <<kNonbasicMoveZe, 0>>

\* void HEkk::initialiseNonbasicValueAndMove()
InitialiseNonbasicValueAndMove ==
  LET r(iVar) ==
        NonbasicValueAndMove(At(nonbasicFlag_, iVar), At(workLower_, iVar),
                             At(workUpper_, iVar), At(nonbasicMove_, iVar),
                             At(workValue_, iVar))
  IN /\ has_basis
     /\ BasisDimensioned
     /\ WorkDimensioned
     /\ nonbasicMove_' = [k \in 1..num_tot |-> r(k - 1)[1]]
     /\ workValue_' = [k \in 1..num_tot |-> r(k - 1)[2]]
     /\ nvm_pending' = FALSE
     /\ lastOp' = "initialiseNonbasicValueAndMove"
     /\ UNCHANGED <<workLower_, workUpper_, workDual_, bounds_perturbed,
                    initialised_for_solve, has_basis, basicIndex_,
                    nonbasicFlag_, lpVars, hlVars, solveVars, historyVars>>

\* HEkk::initialiseForSolve, its work-array part for a basis that is known
\* and factored: allocateWorkAndBaseArrays, initialiseBound(kPrimal,
\* kSolvePhaseUnknown, false), initialiseNonbasicValueAndMove
InitialiseWorkArrays ==
  LET lower == [k \in 1..num_tot |-> LpLower(k - 1)]
      upper == [k \in 1..num_tot |-> LpUpper(k - 1)]
      value == Allocated(workValue_)
      r(iVar) ==
        NonbasicValueAndMove(At(nonbasicFlag_, iVar), At(lower, iVar),
                             At(upper, iVar), At(nonbasicMove_, iVar),
                             At(value, iVar))
  IN /\ has_basis
     /\ BasisDimensioned
     /\ workLower_' = lower
     /\ workUpper_' = upper
     /\ workDual_' = Allocated(workDual_)
     /\ bounds_perturbed' = FALSE
     /\ nonbasicMove_' = [k \in 1..num_tot |-> r(k - 1)[1]]
     /\ workValue_' = [k \in 1..num_tot |-> r(k - 1)[2]]
     /\ nvm_pending' = FALSE
     /\ initialised_for_solve' = TRUE
     /\ lastOp' = "initialiseForSolve"
     /\ UNCHANGED <<has_basis, basicIndex_, nonbasicFlag_, lpVars, hlVars,
                    solveVars, historyVars>>

\* options_.dual_feasibility_tolerance, in the unit of the dual values
TauD == 2
\* the nonbasic dual values computeDual can leave
DualValues == {-TauD, 0, TauD}

\* void HEkk::computeDual(): the reduced costs, whose values come from the
\* factored basis matrix and the costs; any vector over DualValues
ComputeDual(dual) ==
  /\ has_basis
  /\ BasisDimensioned
  /\ WorkDimensioned
  /\ Len(dual) = num_tot
  /\ workDual_' = dual
  /\ lastOp' = "computeDual"
  /\ UNCHANGED <<workLower_, workUpper_, workValue_, bounds_perturbed,
                 initialised_for_solve, nvm_pending, lpVars, hlVars,
                 basisVars, solveVars, historyVars>>

\* variant: the flipped variable is given the bound it left
FlipBoundValue_OldBound(iCol, move) ==
  IF move = 1 THEN At(workUpper_, iCol) ELSE At(workLower_, iCol)

\* flipBound: workValue_[iCol] for the new move
FlipBoundValue(iCol, move) ==
  IF move = 1 THEN At(workLower_, iCol) ELSE At(workUpper_, iCol)

\* void HEkk::flipBound(const HighsInt iCol)
FlipBound(iCol) ==
  LET move == -At(nonbasicMove_, iCol)
  IN /\ has_basis
     /\ BasisDimensioned
     /\ WorkDimensioned
     /\ iCol \in 0..(num_tot - 1)
     /\ nonbasicMove_' = Put(nonbasicMove_, iCol, move)
     /\ workValue_' = Put(workValue_, iCol, FlipBoundValue(iCol, move))
     /\ lastOp' = "flipBound"
     /\ UNCHANGED <<workLower_, workUpper_, workDual_, bounds_perturbed,
                    initialised_for_solve, nvm_pending, has_basis,
                    basicIndex_, nonbasicFlag_, lpVars, hlVars, solveVars,
                    historyVars>>

\* variant: a boxed variable is shifted as a one-sided variable is
CorrectDualBranch_NoFlip(i, allow_cost_perturbation) ==
  IF At(nonbasicFlag_, i) = kNonbasicFlagFalse THEN "none"
  ELSE IF At(workLower_, i) = -kHighsInf /\ At(workUpper_, i) = kHighsInf
       THEN "none"
  ELSE IF At(nonbasicMove_, i) * At(workDual_, i) <= -TauD
       THEN IF At(workLower_, i) # -kHighsInf /\ At(workUpper_, i) # kHighsInf
            THEN "none"
            ELSE IF allow_cost_perturbation THEN "shift" ELSE "skip"
  ELSE "none"

\* correctDual for variable i: "none" | "flip" | "shift" | "skip" (a shift
\* that is not permitted: nothing is written and false is returned)
CorrectDualBranch(i, allow_cost_perturbation) ==
  IF At(nonbasicFlag_, i) = kNonbasicFlagFalse THEN "none"
  ELSE IF At(workLower_, i) = -kHighsInf /\ At(workUpper_, i) = kHighsInf
       THEN "none"
  ELSE IF At(nonbasicMove_, i) * At(workDual_, i) <= -TauD
       THEN IF At(workLower_, i) # -kHighsInf /\ At(workUpper_, i) # kHighsInf
            THEN "flip"
            ELSE IF allow_cost_perturbation THEN "shift" ELSE "skip"
  ELSE "none"

\* bool HEkk::correctDual(free_infeasibility_count); fraction is
\* random_.fraction() * tau_d
CorrectDual(allow_cost_perturbation, fraction) ==
  LET br(i) == CorrectDualBranch(i, allow_cost_perturbation)
      flipped(i) == -At(nonbasicMove_, i)
  IN /\ has_basis
     /\ BasisDimensioned
     /\ WorkDimensioned
     /\ nonbasicMove_' =
          [k \in 1..num_tot |->
             IF br(k - 1) = "flip" THEN flipped(k - 1) ELSE nonbasicMove_[k]]
     /\ workValue_' =
          [k \in 1..num_tot |->
             IF br(k - 1) = "flip" THEN FlipBoundValue(k - 1, flipped(k - 1))
             ELSE workValue_[k]]
     /\ workDual_' =
          [k \in 1..num_tot |->
             IF br(k - 1) = "shift"
             THEN IF nonbasicMove_[k] = 1 THEN TauD + fraction
                  ELSE -(TauD + fraction)
             ELSE workDual_[k]]
     /\ lastOp' = "correctDual"
     /\ UNCHANGED <<workLower_, workUpper_, bounds_perturbed,
                    initialised_for_solve, nvm_pending, has_basis,
                    basicIndex_, nonbasicFlag_, lpVars, hlVars, solveVars,
                    historyVars>>

\* HEkk.h: the scale of the costs
cost_scale_ == 1

\* correctDual: local_dual_objective_change of the flip of variable i, with
\* the move it had before flipBound
FlipObjectiveChange(i) ==
  At(nonbasicMove_, i) * (At(workUpper_, i) - At(workLower_, i))
    * At(workDual_, i) * cost_scale_

\* correctDual: flip_dual_objective_value_change after the first n variables
RECURSIVE FlipObjectiveChanges(_, _)
FlipObjectiveChanges(n, allow_cost_perturbation) ==
  IF n = 0 THEN 0
  ELSE FlipObjectiveChanges(n - 1, allow_cost_perturbation)
         + (IF CorrectDualBranch(n - 1, allow_cost_perturbation) = "flip"
            THEN FlipObjectiveChange(n - 1) ELSE 0)

\* variant: the shifted dual is positive whatever the move
ShiftedDual_Up(move, fraction) == TauD + fraction

\* correctDual: the dual a shift gives a variable; fraction is
\* random_.fraction() * tau_d
ShiftedDual(move, fraction) ==
  IF move = 1 THEN TauD + fraction ELSE -(TauD + fraction)

\* correctDual: workCount, the nonbasic free variables with a dual of at
\* least tau_d
FreeInfeasibilities ==
  {i \in 0..(num_tot - 1) :
     /\ At(nonbasicFlag_, i) # kNonbasicFlagFalse
     /\ At(workLower_, i) = -kHighsInf
     /\ At(workUpper_, i) = kHighsInf
     /\ Abs(At(workDual_, i)) >= TauD}

\* bool HEkk::correctDual(HighsInt* free_infeasibility_count) with the
\* costs, the value it returns and what it leaves for its caller;
\* fraction[k] is random_.fraction() * tau_d as drawn for variable k - 1.
\* assert(!num_shift_skipped) fails where a shift is skipped: the build
\* without assertions returns false.
CorrectDualCall(allow_cost_perturbation, fraction) ==
  LET br(i) == CorrectDualBranch(i, allow_cost_perturbation)
      flipped(i) == -At(nonbasicMove_, i)
      dual(k) == ShiftedDual(nonbasicMove_[k], fraction[k])
      num_shift_skipped ==
        Cardinality({i \in 0..(num_tot - 1) : br(i) = "skip"})
  IN /\ has_basis
     /\ BasisDimensioned
     /\ WorkDimensioned
     /\ Len(workCost_) = num_tot
     /\ nonbasicMove_' =
          [k \in 1..num_tot |->
             IF br(k - 1) = "flip" THEN flipped(k - 1) ELSE nonbasicMove_[k]]
     /\ workValue_' =
          [k \in 1..num_tot |->
             IF br(k - 1) = "flip" THEN FlipBoundValue(k - 1, flipped(k - 1))
             ELSE workValue_[k]]
     /\ workDual_' =
          [k \in 1..num_tot |->
             IF br(k - 1) = "shift" THEN dual(k) ELSE workDual_[k]]
     /\ workCost_' =
          [k \in 1..num_tot |->
             IF br(k - 1) = "shift"
             THEN workCost_[k] + (dual(k) - workDual_[k])
             ELSE workCost_[k]]
     /\ costs_perturbed' =
          (costs_perturbed \/ \E i \in 0..(num_tot - 1) : br(i) = "shift")
     /\ correct_dual' =
          [returned |-> num_shift_skipped = 0,
           flip_dual_objective_value_change |->
             FlipObjectiveChanges(num_tot, allow_cost_perturbation),
           num_shift_skipped |-> num_shift_skipped,
           allow_cost_perturbation |-> allow_cost_perturbation,
           fraction |-> fraction]
     /\ free_infeasibility_count' =
          IF num_shift_skipped = 0 THEN Cardinality(FreeInfeasibilities)
          ELSE free_infeasibility_count
     /\ assertion_failed' = (assertion_failed \/ num_shift_skipped # 0)
     /\ lastOp' = "correctDual"
     /\ UNCHANGED <<workLower_, workUpper_, bounds_perturbed,
                    initialised_for_solve, nvm_pending, has_basis,
                    basicIndex_, nonbasicFlag_, lpVars, hlVars, solveVars,
                    solve_return, choose_calls, rfs_calls, runs, workShift_>>

\* updatePivots: nonbasicFlag_ with the incoming variable basic and the
\* outgoing variable nonbasic
UpdatePivotsFlag(variable_in, variable_out) ==
  Put(Put(nonbasicFlag_, variable_in, 0), variable_out, 1)

\* updatePivots: <<move, value>> of the outgoing variable
UpdatePivotsOut(variable_out, move_out) ==
  IF At(workLower_, variable_out) = At(workUpper_, variable_out)
  THEN <<0, At(workLower_, variable_out)>>
  ELSE IF move_out = -1 THEN <<1, At(workLower_, variable_out)>>
  ELSE <<-1, At(workUpper_, variable_out)>>

\* void HEkk::updatePivots(variable_in, row_out, move_out), called by the
\* drivers with a nonbasic variable_in and a row of the basis
UpdatePivots(variable_in, row_out, move_out) ==
  LET variable_out == At(basicIndex_, row_out)
      out == UpdatePivotsOut(variable_out, move_out)
  IN /\ has_basis
     /\ BasisDimensioned
     /\ WorkDimensioned
     /\ row_out \in 0..(num_row_ - 1)
     /\ variable_in \in 0..(num_tot - 1)
     /\ At(nonbasicFlag_, variable_in) = kNonbasicFlagTrue
     /\ basicIndex_' = Put(basicIndex_, row_out, variable_in)
     /\ nonbasicFlag_' = UpdatePivotsFlag(variable_in, variable_out)
     /\ nonbasicMove_' =
          Put(Put(nonbasicMove_, variable_in, 0), variable_out, out[1])
     /\ workValue_' = Put(workValue_, variable_out, out[2])
     /\ lastOp' = "updatePivots"
     /\ UNCHANGED <<has_basis, workLower_, workUpper_, workDual_,
                    bounds_perturbed, initialised_for_solve, nvm_pending,
                    lpVars, hlVars, solveVars, historyVars>>

\* ------------------------------------------- Highs::addColsInterface / Rows

\* 2^k
RECURSIVE Pow2(_)
Pow2(k) == IF k = 0 THEN 1 ELSE 2 * Pow2(k - 1)

\* a bound or cost times 2^k; an infinite value stays infinite
UserScaled(x, k) == IF Abs(x) >= kHighsInf THEN x ELSE x * Pow2(k)

\* assessBounds: a lower bound of +infinity or an upper bound of -infinity is
\* an error
AssessBounds(lower, upper) ==
  IF \E k \in DOMAIN lower : lower[k] >= kHighsInf \/ upper[k] <= -kHighsInf
  THEN "kError" ELSE "kOk"

\* assessCosts: infinite costs are recorded (has_infinite_cost_), not refused
AssessCosts(cost) == "kOk"

\* boundScaleOk / costScaleOk: no finite value becomes infinite when scaled
ScaleOk(values, k) ==
  \A i \in DOMAIN values :
    Abs(values[i]) < kHighsInf => Abs(values[i]) * Pow2(k) < kHighsInf

\* HighsSparseMatrix::assess of the new vectors (each a sequence of
\* <<index, value>>): no index twice in a vector, no value of large or
\* infinite magnitude
LargeMatrixValue == kHighsInf \div 10

AssessMatrix(vectors) ==
  IF \E v \in DOMAIN vectors :
       \/ \E i, j \in DOMAIN vectors[v] :
            i # j /\ vectors[v][i][1] = vectors[v][j][1]
       \/ \E i \in DOMAIN vectors[v] : Abs(vectors[v][i][2]) >= LargeMatrixValue
  THEN "kError" ELSE "kOk"

\* the entries assess keeps of one vector: those that are not small
KeptEntries(vector) ==
  {vector[i] : i \in {j \in DOMAIN vector : vector[j][2] # 0}}

NumNz(vectors) ==
  LET RECURSIVE Sum(_)
      Sum(k) == IF k = 0 THEN 0 ELSE Len(vectors[k]) + Sum(k - 1)
  IN Sum(Len(vectors))

\* invalidateModelStatusSolutionAndInfo
InvalidateModelStatusSolutionAndInfo ==
  /\ model_status_' = "kNotset"
  /\ solution_valid' = FALSE
  /\ info_valid' = FALSE

\* where addColsInterface returns: "error" before anything is written, "noop"
\* (no new column), "error_appended" (the matrix assessment fails, after the
\* vectors were appended), "ok"
AddColsBranch(ext_num_new_col, ext_num_new_nz, col_data_null, matrix_data_null, cols) ==
  LET cost == [k \in DOMAIN cols |-> cols[k].cost]
      lower == [k \in DOMAIN cols |-> cols[k].lower]
      upper == [k \in DOMAIN cols |-> cols[k].upper]
  IN IF ext_num_new_col < 0 THEN "error"
     ELSE IF ext_num_new_nz < 0 THEN "error"
     ELSE IF ext_num_new_col = 0 THEN "noop"
     ELSE IF col_data_null THEN "error"
     ELSE IF ext_num_new_nz > 0 /\ matrix_data_null THEN "error"
     ELSE IF num_row_ <= 0 /\ ext_num_new_nz > 0 THEN "error"
     ELSE IF AssessCosts(cost) = "kError" THEN "error"
     ELSE IF AssessBounds(lower, upper) = "kError" THEN "error"
     ELSE IF user_bound_scale_ # 0
             /\ ~(ScaleOk(lower, user_bound_scale_)
                  /\ ScaleOk(upper, user_bound_scale_)) THEN "error"
     ELSE IF user_cost_scale_ # 0 /\ ~ScaleOk(cost, user_cost_scale_)
          THEN "error"
     ELSE IF ext_num_new_nz # 0
             /\ AssessMatrix([k \in DOMAIN cols |-> cols[k].entries]) = "kError"
          THEN "error_appended"
     ELSE "ok"

\* appendColsToLpVectors / appendRowsToLpVectors for one vector of the LP:
\* resize to the new dimension, then write the new entries after the first
\* num entries
AppendToVector(v, num, new_entries) ==
  [k \in 1..(num + Len(new_entries)) |->
     IF k <= num THEN Resize(v, num, 0)[k] ELSE new_entries[k - num]]

\* variant: a boxed column whose bounds have the same absolute value is put
\* at its lower bound
ColStatusFromBounds_LowerOnTie(lower, upper) ==
  IF lower = upper THEN "kLower"
  ELSE IF ~highs_isInfinity(-lower)
       THEN IF ~highs_isInfinity(upper)
            THEN IF Abs(lower) <= Abs(upper) THEN "kLower" ELSE "kUpper"
            ELSE "kLower"
       ELSE IF ~highs_isInfinity(upper) THEN "kUpper" ELSE "kZero"

\* the HighsBasisStatus of a new nonbasic column, from its bounds
ColStatusFromBounds(lower, upper) ==
  IF lower = upper THEN "kLower"
  ELSE IF ~highs_isInfinity(-lower)
       THEN IF ~highs_isInfinity(upper)
            THEN IF Abs(lower) < Abs(upper) THEN "kLower" ELSE "kUpper"
            ELSE "kLower"
       ELSE IF ~highs_isInfinity(upper) THEN "kUpper" ELSE "kZero"

\* variant: the indices of the basic logicals are not shifted
AppendColsBasicIndex_Unshifted(ext_num_new_col) == basicIndex_

\* appendNonbasicColsToBasisInterface: basicIndex_ with the logicals shifted
AppendColsBasicIndex(ext_num_new_col) ==
  [i \in DOMAIN basicIndex_ |->
     IF i <= num_row_ /\ basicIndex_[i] >= num_col_
     THEN basicIndex_[i] + ext_num_new_col
     ELSE basicIndex_[i]]

\* variant: the rows are taken from the first to the last
ShiftOrder_Upward == [k \in 1..num_row_ |-> k - 1]

\* appendNonbasicColsToBasisInterface: the rows in the order of the loop,
\* for (iRow = lp.num_row_ - 1; iRow >= 0; iRow--)
ShiftOrder == [k \in 1..num_row_ |-> num_row_ - k]

\* appendNonbasicColsToBasisInterface: the resized array v after the first
\* `done` passes of the loop that shifts the row data in place
RECURSIVE ShiftRowData(_, _, _)
ShiftRowData(v, ext_num_new_col, done) ==
  IF done = 0 THEN v
  ELSE LET w == ShiftRowData(v, ext_num_new_col, done - 1)
           iRow == ShiftOrder[done]
       IN Put(w, num_col_ + ext_num_new_col + iRow, At(w, num_col_ + iRow))

\* appendNonbasicColsToBasisInterface: nonbasicFlag_ or nonbasicMove_ (v), the
\* entries of the logicals moved up and those of the new columns written
AppendColsArray(v, ext_num_new_col, new_entries) ==
  LET newNumCol == num_col_ + ext_num_new_col
      newNumTot == newNumCol + num_row_
      r == ShiftRowData(Resize(v, newNumTot, 0), ext_num_new_col, num_row_)
  IN [k \in 1..newNumTot |->
        IF num_col_ < k /\ k <= newNumCol THEN new_entries[k - num_col_]
        ELSE r[k]]

\* void Highs::appendNonbasicColsToBasisInterface(ext_num_new_col), with the
\* bounds of the new columns as appended to the LP
AppendNonbasicColsToBasisInterface(ext_num_new_col, lower, upper) ==
  IF ~basis_valid \/ ext_num_new_col = 0
  THEN UNCHANGED <<col_status, basisVars>>
  ELSE /\ col_status' =
            [k \in 1..(num_col_ + ext_num_new_col) |->
               IF k <= num_col_
               THEN Resize(col_status, num_col_ + ext_num_new_col, "kLower")[k]
               ELSE ColStatusFromBounds(lower[k - num_col_],
                                        upper[k - num_col_])]
       /\ IF has_basis
          THEN /\ nonbasicFlag_' =
                    AppendColsArray(nonbasicFlag_, ext_num_new_col,
                      [k \in 1..ext_num_new_col |-> kNonbasicFlagTrue])
               /\ nonbasicMove_' =
                    AppendColsArray(nonbasicMove_, ext_num_new_col,
                      [k \in 1..ext_num_new_col |->
                         MoveFromBounds(lower[k], upper[k])])
               /\ basicIndex_' = AppendColsBasicIndex(ext_num_new_col)
               /\ UNCHANGED has_basis
          ELSE UNCHANGED basisVars

\* HighsStatus Highs::addColsInterface(ext_num_new_col, ext_col_cost,
\* ext_col_lower, ext_col_upper, ext_num_new_nz, ext_a_start, ext_a_index,
\* ext_a_value).  cols: the new columns, each with cost, lower, upper and its
\* entries <<row index, value>>.  ekk_instance_.addCols is not in these
\* sources and is taken to leave the arrays of the model as they are.
AddColsInterface(ext_num_new_col, ext_num_new_nz, col_data_null, matrix_data_null, cols) ==
  LET branch == AddColsBranch(ext_num_new_col, ext_num_new_nz, col_data_null,
                              matrix_data_null, cols)
      cost == [k \in DOMAIN cols |-> UserScaled(cols[k].cost, user_cost_scale_)]
      lower ==
        [k \in DOMAIN cols |-> UserScaled(cols[k].lower, user_bound_scale_)]
      upper ==
        [k \in DOMAIN cols |-> UserScaled(cols[k].upper, user_bound_scale_)]
      appended ==
        /\ col_cost_' = AppendToVector(col_cost_, num_col_, cost)
        /\ col_lower_' = AppendToVector(col_lower_, num_col_, lower)
        /\ col_upper_' = AppendToVector(col_upper_, num_col_, upper)
        /\ integrality_' =
             IF integrality_ = <<>> THEN integrality_
             ELSE AppendToVector(integrality_, num_col_,
                                 [k \in DOMAIN cols |-> "kContinuous"])
  IN /\ lastOp' = "addColsInterface"
     /\ UNCHANGED <<row_lower_, row_upper_, num_row_, user_bound_scale_,
                    user_cost_scale_, row_status, basis_valid, workVars,
                    solveVars, historyVars>>
     /\ CASE branch = "error" ->
               /\ last_return' = "kError"
               /\ UNCHANGED <<num_col_, col_cost_, col_lower_, col_upper_,
                              a_matrix_, integrality_, col_status,
                              model_status_, solution_valid, info_valid,
                              basisVars>>
          [] branch = "noop" ->
               /\ last_return' = "kOk"
               /\ UNCHANGED <<num_col_, col_cost_, col_lower_, col_upper_,
                              a_matrix_, integrality_, col_status,
                              model_status_, solution_valid, info_valid,
                              basisVars>>
          [] branch = "error_appended" ->
               /\ last_return' = "kError"
               /\ appended
               /\ UNCHANGED <<num_col_, a_matrix_, col_status, model_status_,
                              solution_valid, info_valid, basisVars>>
          [] branch = "ok" ->
               /\ last_return' = "kOk"
               /\ appended
               /\ a_matrix_' =
                    a_matrix_ \o [k \in DOMAIN cols |->
                                    KeptEntries(cols[k].entries)]
               /\ AppendNonbasicColsToBasisInterface(ext_num_new_col, lower,
                                                     upper)
               /\ num_col_' = num_col_ + ext_num_new_col
               /\ InvalidateModelStatusSolutionAndInfo

\* where addRowsInterface returns (as AddColsBranch)
AddRowsBranch(ext_num_new_row, ext_num_new_nz, row_data_null, matrix_data_null, rows) ==
  LET lower == [k \in DOMAIN rows |-> rows[k].lower]
      upper == [k \in DOMAIN rows |-> rows[k].upper]
  IN IF ext_num_new_row < 0 THEN "error"
     ELSE IF ext_num_new_nz < 0 THEN "error"
     ELSE IF ext_num_new_row = 0 THEN "noop"
     ELSE IF row_data_null THEN "error"
     ELSE IF ext_num_new_nz > 0 /\ matrix_data_null THEN "error"
     ELSE IF num_col_ <= 0 /\ ext_num_new_nz > 0 THEN "error"
     ELSE IF AssessBounds(lower, upper) = "kError" THEN "error"
     ELSE IF user_bound_scale_ # 0
             /\ ~(ScaleOk(lower, user_bound_scale_)
                  /\ ScaleOk(upper, user_bound_scale_)) THEN "error"
     ELSE IF ext_num_new_nz # 0
             /\ AssessMatrix([k \in DOMAIN rows |-> rows[k].entries]) = "kError"
          THEN "error_appended"
     ELSE "ok"

\* variant: the indices of the basic logicals are shifted by the number of
\* new rows
AppendBasicRowsToBasisInterface_Shifted(ext_num_new_row) ==
  LET newNumRow == num_row_ + ext_num_new_row
      newNumTot == num_col_ + newNumRow
  IN IF ~basis_valid \/ ext_num_new_row = 0
     THEN UNCHANGED <<row_status, basisVars>>
     ELSE /\ row_status' =
               [k \in 1..newNumRow |->
                  IF k <= num_row_ THEN Resize(row_status, newNumRow, "kLower")[k]
                  ELSE "kBasic"]
          /\ IF has_basis
             THEN /\ nonbasicFlag_' =
                       [k \in 1..newNumTot |->
                          IF k <= num_col_ + num_row_
                          THEN Resize(nonbasicFlag_, newNumTot, 0)[k]
                          ELSE kNonbasicFlagFalse]
                  /\ nonbasicMove_' =
                       [k \in 1..newNumTot |->
                          IF k <= num_col_ + num_row_
                          THEN Resize(nonbasicMove_, newNumTot, 0)[k]
                          ELSE 0]
                  /\ basicIndex_' =
                       [i \in 1..newNumRow |->
                          IF i <= num_row_
                          THEN IF basicIndex_[i] >= num_col_
                               THEN basicIndex_[i] + ext_num_new_row
                               ELSE basicIndex_[i]
                          ELSE num_col_ + (i - 1)]
                  /\ UNCHANGED has_basis
             ELSE UNCHANGED basisVars

\* void Highs::appendBasicRowsToBasisInterface(ext_num_new_row)
AppendBasicRowsToBasisInterface(ext_num_new_row) ==
  LET newNumRow == num_row_ + ext_num_new_row
      newNumTot == num_col_ + newNumRow
  IN IF ~basis_valid \/ ext_num_new_row = 0
     THEN UNCHANGED <<row_status, basisVars>>
     ELSE /\ row_status' =
               [k \in 1..newNumRow |->
                  IF k <= num_row_ THEN Resize(row_status, newNumRow, "kLower")[k]
                  ELSE "kBasic"]
          /\ IF has_basis
             THEN /\ nonbasicFlag_' =
                       [k \in 1..newNumTot |->
                          IF k <= num_col_ + num_row_
                          THEN Resize(nonbasicFlag_, newNumTot, 0)[k]
                          ELSE kNonbasicFlagFalse]
                  /\ nonbasicMove_' =
                       [k \in 1..newNumTot |->
                          IF k <= num_col_ + num_row_
                          THEN Resize(nonbasicMove_, newNumTot, 0)[k]
                          ELSE 0]
                  /\ basicIndex_' =
                       [i \in 1..newNumRow |->
                          IF i <= num_row_ THEN Resize(basicIndex_, newNumRow, 0)[i]
                          ELSE num_col_ + (i - 1)]
                  /\ UNCHANGED has_basis
             ELSE UNCHANGED basisVars

\* HighsSparseMatrix::addRows: the entries <<column index, value>> of the new
\* rows spliced into the columns
AddRowsToMatrix(rows) ==
  [c \in 1..Len(a_matrix_) |->
     a_matrix_[c] \cup
       UNION {{<<num_row_ + (k - 1), e[2]>> :
                 e \in {x \in KeptEntries(rows[k].entries) : x[1] = c - 1}} :
              k \in DOMAIN rows}]

\* HighsStatus Highs::addRowsInterface(ext_num_new_row, ext_row_lower,
\* ext_row_upper, ext_num_new_nz, ext_ar_start, ext_ar_index, ext_ar_value).
\* rows: the new rows, each with lower, upper and its entries <<column index,
\* value>>.  ekk_instance_.addRows is not in these sources and is taken to
\* leave the arrays of the model as they are.
AddRowsInterface(ext_num_new_row, ext_num_new_nz, row_data_null, matrix_data_null, rows) ==
  LET branch == AddRowsBranch(ext_num_new_row, ext_num_new_nz, row_data_null,
                              matrix_data_null, rows)
      lower ==
        [k \in DOMAIN rows |-> UserScaled(rows[k].lower, user_bound_scale_)]
      upper ==
        [k \in DOMAIN rows |-> UserScaled(rows[k].upper, user_bound_scale_)]
      appended ==
        /\ row_lower_' = AppendToVector(row_lower_, num_row_, lower)
        /\ row_upper_' = AppendToVector(row_upper_, num_row_, upper)
  IN /\ lastOp' = "addRowsInterface"
     /\ UNCHANGED <<col_cost_, col_lower_, col_upper_, num_col_, integrality_,
                    user_bound_scale_, user_cost_scale_, col_status,
                    basis_valid, workVars, solveVars, historyVars>>
     /\ CASE branch = "error" ->
               /\ last_return' = "kError"
               /\ UNCHANGED <<num_row_, row_lower_, row_upper_, a_matrix_,
                              row_status, model_status_, solution_valid,
                              info_valid, basisVars>>
          [] branch = "noop" ->
               /\ last_return' = "kOk"
               /\ UNCHANGED <<num_row_, row_lower_, row_upper_, a_matrix_,
                              row_status, model_status_, solution_valid,
                              info_valid, basisVars>>
          [] branch = "error_appended" ->
               /\ last_return' = "kError"
               /\ appended
               /\ UNCHANGED <<num_row_, a_matrix_, row_status, model_status_,
                              solution_valid, info_valid, basisVars>>
          [] branch = "ok" ->
               /\ last_return' = "kOk"
               /\ appended
               /\ a_matrix_' = AddRowsToMatrix(rows)
               /\ AppendBasicRowsToBasisInterface(ext_num_new_row)
               /\ num_row_' = num_row_ + ext_num_new_row
               /\ InvalidateModelStatusSolutionAndInfo

\* ------------------------------------------- Highs::setHotStartInterface

\* <<status, move>> setHotStartInterface gives a nonbasic column / row from its
\* bounds and, when boxed, the move of the hot start
HotStartCol(lower, upper, move) ==
  IF lower = upper THEN <<"kLower", kNonbasicMoveZe>>
  ELSE IF ~highs_isInfinity(-lower)
       THEN IF ~highs_isInfinity(upper)
            THEN IF move = kNonbasicMoveUp THEN <<"kLower", kNonbasicMoveUp>>
                 ELSE <<"kUpper", kNonbasicMoveDn>>
            ELSE <<"kLower", kNonbasicMoveUp>>
       ELSE IF ~highs_isInfinity(upper) THEN <<"kUpper", kNonbasicMoveDn>>
            ELSE <<"kZero", kNonbasicMoveZe>>

HotStartRow(lower, upper, move) ==
  IF lower = upper THEN <<"kLower", kNonbasicMoveZe>>
  ELSE IF ~highs_isInfinity(-lower)
       THEN IF ~highs_isInfinity(upper)
            THEN IF move = kNonbasicMoveDn THEN <<"kLower", kNonbasicMoveDn>>
                 ELSE <<"kUpper", kNonbasicMoveUp>>
            ELSE <<"kLower", kNonbasicMoveDn>>
       ELSE IF ~highs_isInfinity(upper) THEN <<"kUpper", kNonbasicMoveUp>>
            ELSE <<"kZero", kNonbasicMoveZe>>

\* HighsStatus Highs::setHotStartInterface(const HotStart& hot_start).
\* hot_start.pivot_var stands for refactor_info (pivot_row, pivot_var and
\* pivot_type have one size).
SetHotStartInterface(hot_start) ==
  LET ok == /\ Len(hot_start.pivot_var) = num_row_
            /\ Len(hot_start.nonbasicMove) = num_tot
      basic == {hot_start.pivot_var[i] : i \in DOMAIN hot_start.pivot_var}
      rows == Resize(row_status, num_row_, "kBasic")
      col(iCol) ==
        HotStartCol(At(col_lower_, iCol), At(col_upper_, iCol),
                    At(hot_start.nonbasicMove, iCol))
      row(iRow) ==
        HotStartRow(At(row_lower_, iRow), At(row_upper_, iRow),
                    At(hot_start.nonbasicMove, num_col_ + iRow))
  IN /\ lastOp' = "setHotStartInterface"
     /\ UNCHANGED <<lpVars, model_status_, solution_valid, info_valid,
                    workVars, solveVars, historyVars>>
     /\ IF ~ok
        THEN /\ last_return' = "kError"
             /\ UNCHANGED <<basis_valid, col_status, row_status, basisVars>>
        ELSE /\ last_return' = "kOk"
             /\ basicIndex_' = hot_start.pivot_var
             /\ nonbasicFlag_' =
                  [k \in 1..num_tot |->
                     IF (k - 1) \in basic THEN kNonbasicFlagFalse
                     ELSE kNonbasicFlagTrue]
             /\ nonbasicMove_' =
                  [k \in 1..num_tot |->
                     IF (k - 1) \in basic THEN hot_start.nonbasicMove[k]
                     ELSE IF k <= num_col_ THEN col(k - 1)[2]
                     ELSE row(k - 1 - num_col_)[2]]
             /\ col_status' =
                  [k \in 1..num_col_ |->
                     IF (k - 1) \in basic THEN "kBasic" ELSE col(k - 1)[1]]
             /\ row_status' =
                  [k \in 1..num_row_ |->
                     IF (num_col_ + k - 1) \in basic THEN rows[k]
                     ELSE row(k - 1)[1]]
             /\ basis_valid' = TRUE
             /\ has_basis' = TRUE

\* ------------------- Highs: changeIntegrality / Costs / ColBounds / RowBounds

\* invalidateModelStatus
InvalidateModelStatus ==
  /\ model_status_' = "kNotset"
  /\ UNCHANGED <<solution_valid, info_valid>>

\* HighsIndexCollection, an interval from_..to_ of indices: dataSize
DataSize(index_collection) == index_collection.to_ - index_collection.from_ + 1

\* index_collection.is_mask_: the collection is a mask, one entry for each
\* index, otherwise it is an interval
IsMask(index_collection) == "mask_" \in DOMAIN index_collection

\* the indices of the collection: those of the interval, or those whose mask
\* entry is not zero
Indices(index_collection) ==
  IF IsMask(index_collection)
  THEN {i \in 0..(Len(index_collection.mask_) - 1) :
          At(index_collection.mask_, i) # 0}
  ELSE index_collection.from_..index_collection.to_

\* changeLpIntegrality / changeLpCosts / changeLpColBounds / changeLpRowBounds
\* for one vector v of the LP: entry k of data goes to index from_ + k
ChangeLpVector(v, index_collection, data) ==
  [k \in DOMAIN v |->
     IF (k - 1) \in Indices(index_collection)
     THEN data[k - index_collection.from_]
     ELSE v[k]]

\* "Deduce the consequences of new integrality"
ChangeIntegralityConsequences == InvalidateModelStatus

\* HighsStatus Highs::changeIntegralityInterface(index_collection, integrality)
ChangeIntegralityInterface(index_collection, data_null, integrality) ==
  LET num_integrality == DataSize(index_collection)
  IN /\ lastOp' = "changeIntegralityInterface"
     /\ UNCHANGED <<num_col_, num_row_, col_cost_, col_lower_, col_upper_,
                    row_lower_, row_upper_, a_matrix_, user_bound_scale_,
                    user_cost_scale_, basis_valid, col_status, row_status,
                    basisVars, workVars, solveVars, historyVars>>
     /\ IF num_integrality <= 0
        THEN /\ last_return' = "kOk"
             /\ UNCHANGED <<integrality_, model_status_, solution_valid,
                            info_valid>>
        ELSE IF data_null
        THEN /\ last_return' = "kError"
             /\ UNCHANGED <<integrality_, model_status_, solution_valid,
                            info_valid>>
        ELSE /\ integrality_' =
                  ChangeLpVector(Resize(integrality_, num_col_, "kContinuous"),
                                 index_collection, integrality)
             /\ ChangeIntegralityConsequences
             /\ last_return' = "kOk"

\* variant: new costs reset the model status only
ChangeCostsConsequences_StatusOnly == InvalidateModelStatus

\* "Deduce the consequences of new costs"
ChangeCostsConsequences == InvalidateModelStatusSolutionAndInfo

\* HighsStatus Highs::changeCostsInterface(index_collection, cost)
ChangeCostsInterface(index_collection, data_null, cost) ==
  LET num_cost == DataSize(index_collection)
      branch ==
        IF num_cost <= 0 THEN "noop"
        ELSE IF data_null THEN "error"
        ELSE IF AssessCosts(cost) = "kError" THEN "error"
        ELSE IF user_cost_scale_ # 0 /\ ~ScaleOk(cost, user_cost_scale_)
             THEN "error"
        ELSE "ok"
      local_colCost ==
        [k \in DOMAIN cost |-> UserScaled(cost[k], user_cost_scale_)]
  IN /\ lastOp' = "changeCostsInterface"
     /\ UNCHANGED <<num_col_, num_row_, col_lower_, col_upper_, row_lower_,
                    row_upper_, a_matrix_, integrality_, user_bound_scale_,
                    user_cost_scale_, basis_valid, col_status, row_status,
                    basisVars, workVars, solveVars, historyVars>>
     /\ IF branch = "ok"
        THEN /\ col_cost_' =
                  ChangeLpVector(col_cost_, index_collection, local_colCost)
             /\ ChangeCostsConsequences
             /\ last_return' = "kOk"
        ELSE /\ last_return' = IF branch = "noop" THEN "kOk" ELSE "kError"
             /\ UNCHANGED <<col_cost_, model_status_, solution_valid,
                            info_valid>>

\* setNonbasicStatusInterface for one nonbasic column: <<status, move>> from
\* its bounds and its present status
NonbasicStatusCol(lower, upper, status) ==
  IF lower = upper
  THEN <<IF status = "kNonbasic" THEN "kLower" ELSE status, kNonbasicMoveZe>>
  ELSE IF ~highs_isInfinity(-lower)
       THEN IF ~highs_isInfinity(upper)
            THEN IF status = "kNonbasic"
                 THEN IF Abs(lower) < Abs(upper)
                      THEN <<"kLower", kNonbasicMoveUp>>
                      ELSE <<"kUpper", kNonbasicMoveDn>>
                 ELSE IF status = "kLower" THEN <<status, kNonbasicMoveUp>>
                      ELSE <<status, kNonbasicMoveDn>>
            ELSE <<"kLower", kNonbasicMoveUp>>
       ELSE IF ~highs_isInfinity(upper) THEN <<"kUpper", kNonbasicMoveDn>>
            ELSE <<"kZero", kNonbasicMoveZe>>

\* variant: bounds of the same absolute value put the row at its lower bound
NonbasicStatusRow_TieLower(lower, upper, status) ==
  IF lower = upper
  THEN <<IF status = "kNonbasic" THEN "kLower" ELSE status, kNonbasicMoveZe>>
  ELSE IF ~highs_isInfinity(-lower)
       THEN IF ~highs_isInfinity(upper)
            THEN IF status = "kNonbasic"
                 THEN IF Abs(lower) <= Abs(upper)
                      THEN <<"kLower", kNonbasicMoveDn>>
                      ELSE <<"kUpper", kNonbasicMoveUp>>
                 ELSE IF status = "kLower" THEN <<status, kNonbasicMoveDn>>
                      ELSE <<status, kNonbasicMoveUp>>
            ELSE <<"kLower", kNonbasicMoveDn>>
       ELSE IF ~highs_isInfinity(upper) THEN <<"kUpper", kNonbasicMoveUp>>
            ELSE <<"kZero", kNonbasicMoveZe>>

\* the same for one nonbasic row
NonbasicStatusRow(lower, upper, status) ==
  IF lower = upper
  THEN <<IF status = "kNonbasic" THEN "kLower" ELSE status, kNonbasicMoveZe>>
  ELSE IF ~highs_isInfinity(-lower)
       THEN IF ~highs_isInfinity(upper)
            THEN IF status = "kNonbasic"
                 THEN IF Abs(lower) < Abs(upper)
                      THEN <<"kLower", kNonbasicMoveDn>>
                      ELSE <<"kUpper", kNonbasicMoveUp>>
                 ELSE IF status = "kLower" THEN <<status, kNonbasicMoveDn>>
                      ELSE <<status, kNonbasicMoveUp>>
            ELSE <<"kLower", kNonbasicMoveDn>>
       ELSE IF ~highs_isInfinity(upper) THEN <<"kUpper", kNonbasicMoveUp>>
            ELSE <<"kZero", kNonbasicMoveZe>>

\* void Highs::setNonbasicStatusInterface(index_collection, columns), with
\* lower and upper the bounds of the LP's columns (rows) as just changed
SetNonbasicStatusInterface(index_collection, columns, lower, upper) ==
  LET status == IF columns THEN col_status ELSE row_status
      offset == IF columns THEN 0 ELSE num_col_
      set(k) ==
        /\ k \in DOMAIN status
        /\ (k - 1) \in Indices(index_collection)
        /\ status[k] # "kBasic"
      r(k) ==
        IF columns THEN NonbasicStatusCol(lower[k], upper[k], status[k])
        ELSE NonbasicStatusRow(lower[k], upper[k], status[k])
      new_status == [k \in DOMAIN status |-> IF set(k) THEN r(k)[1] ELSE status[k]]
  IN IF ~basis_valid
     THEN UNCHANGED <<col_status, row_status, basisVars>>
     ELSE /\ IF columns
             THEN col_status' = new_status /\ UNCHANGED row_status
             ELSE row_status' = new_status /\ UNCHANGED col_status
          /\ IF has_basis
             THEN /\ nonbasicFlag_' =
                       [v \in DOMAIN nonbasicFlag_ |->
                          IF set(v - offset) THEN kNonbasicFlagTrue
                          ELSE nonbasicFlag_[v]]
                  /\ nonbasicMove_' =
                       [v \in DOMAIN nonbasicMove_ |->
                          IF set(v - offset) THEN r(v - offset)[2]
                          ELSE nonbasicMove_[v]]
                  /\ UNCHANGED <<has_basis, basicIndex_>>
             ELSE UNCHANGED basisVars

\* where changeColBoundsInterface / changeRowBoundsInterface returns
ChangeBoundsBranch(index_collection, data_null, lower, upper) ==
  IF DataSize(index_collection) <= 0 THEN "noop"
  ELSE IF data_null THEN "error"
  ELSE IF AssessBounds(lower, upper) = "kError" THEN "error"
  ELSE IF user_bound_scale_ # 0
          /\ ~(ScaleOk(lower, user_bound_scale_)
               /\ ScaleOk(upper, user_bound_scale_)) THEN "error"
  ELSE "ok"

\* HighsStatus Highs::changeColBoundsInterface(index_collection, col_lower,
\* col_upper)
ChangeColBoundsInterface(index_collection, data_null, lower, upper) ==
  LET branch == ChangeBoundsBranch(index_collection, data_null, lower, upper)
      local_colLower ==
        [k \in DOMAIN lower |-> UserScaled(lower[k], user_bound_scale_)]
      local_colUpper ==
        [k \in DOMAIN upper |-> UserScaled(upper[k], user_bound_scale_)]
      new_lower == ChangeLpVector(col_lower_, index_collection, local_colLower)
      new_upper == ChangeLpVector(col_upper_, index_collection, local_colUpper)
  IN /\ lastOp' = "changeColBoundsInterface"
     /\ UNCHANGED <<num_col_, num_row_, col_cost_, row_lower_, row_upper_,
                    a_matrix_, integrality_, user_bound_scale_,
                    user_cost_scale_, basis_valid, workVars, solveVars,
                    historyVars>>
     /\ IF branch = "ok"
        THEN /\ col_lower_' = new_lower
             /\ col_upper_' = new_upper
             /\ SetNonbasicStatusInterface(index_collection, TRUE, new_lower,
                                           new_upper)
             /\ InvalidateModelStatusSolutionAndInfo
             /\ last_return' = "kOk"
        ELSE /\ last_return' = IF branch = "noop" THEN "kOk" ELSE "kError"
             /\ UNCHANGED <<col_lower_, col_upper_, col_status, row_status,
                            basisVars, model_status_, solution_valid,
                            info_valid>>

\* HighsStatus Highs::changeRowBoundsInterface(index_collection, lower, upper)
ChangeRowBoundsInterface(index_collection, data_null, lower, upper) ==
  LET branch == ChangeBoundsBranch(index_collection, data_null, lower, upper)
      local_rowLower ==
        [k \in DOMAIN lower |-> UserScaled(lower[k], user_bound_scale_)]
      local_rowUpper ==
        [k \in DOMAIN upper |-> UserScaled(upper[k], user_bound_scale_)]
      new_lower == ChangeLpVector(row_lower_, index_collection, local_rowLower)
      new_upper == ChangeLpVector(row_upper_, index_collection, local_rowUpper)
  IN /\ lastOp' = "changeRowBoundsInterface"
     /\ UNCHANGED <<num_col_, num_row_, col_cost_, col_lower_, col_upper_,
                    a_matrix_, integrality_, user_bound_scale_,
                    user_cost_scale_, basis_valid, workVars, solveVars,
                    historyVars>>
     /\ IF branch = "ok"
        THEN /\ row_lower_' = new_lower
             /\ row_upper_' = new_upper
             /\ SetNonbasicStatusInterface(index_collection, FALSE, new_lower,
                                           new_upper)
             /\ InvalidateModelStatusSolutionAndInfo
             /\ last_return' = "kOk"
        ELSE /\ last_return' = IF branch = "noop" THEN "kOk" ELSE "kError"
             /\ UNCHANGED <<row_lower_, row_upper_, col_status, row_status,
                            basisVars, model_status_, solution_valid,
                            info_valid>>

\* --------------------------- Highs: deleteCols / deleteRows / changeCoefficient

\* the indices of the collection that the vector v has
Deleted(v, index_collection) == Indices(index_collection) \cap 0..(Len(v) - 1)

\* deleteLpCols / deleteLpRows for one vector of the LP: the entries of the
\* collection are removed, the later ones move down
DeleteFromVector(v, index_collection) ==
  LET del == Deleted(v, index_collection)
      kept == (0..(Len(v) - 1)) \ del
      \* the old index of the entry that gets the new index j
      Old(j) == CHOOSE i \in kept : Cardinality({h \in kept : h < i}) = j
  IN [j \in 1..Cardinality(kept) |-> At(v, Old(j - 1))]

\* deleteLpRows for the matrix: the entries of the deleted rows are removed
\* from each column, the entries of later rows get their new row index
DeleteRowsFromMatrix(index_collection) ==
  LET del == Indices(index_collection) \cap 0..(num_row_ - 1)
  IN [c \in DOMAIN a_matrix_ |->
        {<<e[1] - Cardinality({d \in del : d < e[1]}), e[2]>> :
           e \in {x \in a_matrix_[c] : x[1] \notin del}}]

\* variant: a kept index keeps its old index in the mask
MaskAfterDelete_OldIndex(mask, original_dim) ==
  [k \in DOMAIN mask |->
     IF k - 1 < original_dim
     THEN IF mask[k] = 0 THEN k - 1 ELSE -1
     ELSE mask[k]]

\* "Set the mask values to indicate the new index value of the remaining
\* columns": the entries below the original dimension become the new index
\* of a kept index and -1 for a deleted one
MaskAfterDelete(mask, original_dim) ==
  [k \in DOMAIN mask |->
     IF k - 1 < original_dim
     THEN IF mask[k] = 0
          THEN Cardinality({h \in 1..(k - 1) : mask[h] = 0})
          ELSE -1
     ELSE mask[k]]

\* the mask of the caller after a deletion
CallerMask(index_collection, original_dim) ==
  IF IsMask(index_collection)
  THEN MaskAfterDelete(index_collection.mask_, original_dim)
  ELSE mask_

\* variant: a deletion of columns leaves the validity of the basis of Highs
\* as it is
DeleteColsInterface_KeepsBasis(index_collection) ==
  LET new_num_col ==
        num_col_ - Cardinality(Indices(index_collection) \cap 0..(num_col_ - 1))
  IN /\ lastOp' = "deleteColsInterface"
     /\ last_return' = "none"
     /\ num_col_' = new_num_col
     /\ col_cost_' = DeleteFromVector(col_cost_, index_collection)
     /\ col_lower_' = DeleteFromVector(col_lower_, index_collection)
     /\ col_upper_' = DeleteFromVector(col_upper_, index_collection)
     /\ integrality_' = DeleteFromVector(integrality_, index_collection)
     /\ a_matrix_' = DeleteFromVector(a_matrix_, index_collection)
     /\ basis_valid' = basis_valid
     /\ InvalidateModelStatusSolutionAndInfo
     /\ mask_' = CallerMask(index_collection, num_col_)
     /\ UNCHANGED <<num_row_, row_lower_, row_upper_, user_bound_scale_,
                    user_cost_scale_, col_status, row_status, basisVars,
                    workVars, solveVars, historyVars>>

\* void Highs::deleteColsInterface(index_collection).  ekk_instance_.deleteCols
\* is not in these sources and is taken to leave the arrays of the model as
\* they are.
DeleteColsInterface(index_collection) ==
  LET new_num_col ==
        num_col_ - Cardinality(Indices(index_collection) \cap 0..(num_col_ - 1))
  IN /\ lastOp' = "deleteColsInterface"
     /\ last_return' = "none"
     /\ num_col_' = new_num_col
     /\ col_cost_' = DeleteFromVector(col_cost_, index_collection)
     /\ col_lower_' = DeleteFromVector(col_lower_, index_collection)
     /\ col_upper_' = DeleteFromVector(col_upper_, index_collection)
     /\ integrality_' = DeleteFromVector(integrality_, index_collection)
     /\ a_matrix_' = DeleteFromVector(a_matrix_, index_collection)
     /\ basis_valid' = IF new_num_col < num_col_ THEN FALSE ELSE basis_valid
     /\ InvalidateModelStatusSolutionAndInfo
     /\ mask_' = CallerMask(index_collection, num_col_)
     /\ UNCHANGED <<num_row_, row_lower_, row_upper_, user_bound_scale_,
                    user_cost_scale_, col_status, row_status, basisVars,
                    workVars, solveVars, historyVars>>

\* void Highs::deleteRowsInterface(index_collection)
DeleteRowsInterface(index_collection) ==
  LET new_num_row ==
        num_row_ - Cardinality(Indices(index_collection) \cap 0..(num_row_ - 1))
  IN /\ lastOp' = "deleteRowsInterface"
     /\ last_return' = "none"
     /\ num_row_' = new_num_row
     /\ row_lower_' = DeleteFromVector(row_lower_, index_collection)
     /\ row_upper_' = DeleteFromVector(row_upper_, index_collection)
     /\ a_matrix_' = DeleteRowsFromMatrix(index_collection)
     /\ basis_valid' = IF new_num_row < num_row_ THEN FALSE ELSE basis_valid
     /\ InvalidateModelStatusSolutionAndInfo
     /\ mask_' = CallerMask(index_collection, num_row_)
     /\ UNCHANGED <<num_col_, col_cost_, col_lower_, col_upper_, integrality_,
                    user_bound_scale_, user_cost_scale_, col_status,
                    row_status, basisVars, workVars, solveVars, historyVars>>

\* changeLpMatrixCoefficient: the entries of column ext_col with the entry of
\* row ext_row set to the new value, or removed when the new value is zero
ChangeLpMatrixCoefficient(ext_row, ext_col, ext_new_value) ==
  {e \in At(a_matrix_, ext_col) : e[1] # ext_row}
    \cup (IF ext_new_value = 0 THEN {} ELSE {<<ext_row, ext_new_value>>})

\* void Highs::changeCoefficientInterface(ext_row, ext_col, ext_new_value);
\* basis_.alien and basis_.was_alien are not part of the state of the model
ChangeCoefficientInterface(ext_row, ext_col, ext_new_value) ==
  /\ 0 <= ext_row /\ ext_row < num_row_
  /\ 0 <= ext_col /\ ext_col < num_col_
  /\ lastOp' = "changeCoefficientInterface"
  /\ last_return' = "none"
  /\ a_matrix_' =
       Put(a_matrix_, ext_col,
           ChangeLpMatrixCoefficient(ext_row, ext_col, ext_new_value))
  /\ InvalidateModelStatusSolutionAndInfo
  /\ UNCHANGED <<num_col_, num_row_, col_cost_, col_lower_, col_upper_,
                 row_lower_, row_upper_, integrality_, user_bound_scale_,
                 user_cost_scale_, basis_valid, col_status, row_status,
                 basisVars, workVars, solveVars, historyVars>>

\* ------------------------------------------- Highs: scaleCol / scaleRow

\* x * scale_value, an infinite x staying infinite
ScaledUp(x, scale_value) ==
  IF Abs(x) >= kHighsInf THEN (IF scale_value < 0 THEN -x ELSE x)
  ELSE x * scale_value

\* x / scale_value, an infinite x staying infinite
ScaledDown(x, scale_value) ==
  IF Abs(x) >= kHighsInf THEN (IF scale_value < 0 THEN -x ELSE x)
  ELSE IF scale_value < 0 THEN -(x \div (-scale_value))
  ELSE x \div scale_value

\* Lower <-> Upper
FlipStatus(status) ==
  IF status = "kLower" THEN "kUpper"
  ELSE IF status = "kUpper" THEN "kLower" ELSE status

\* Up <-> Dn
FlipMove(move) ==
  IF move = kNonbasicMoveUp THEN kNonbasicMoveDn
  ELSE IF move = kNonbasicMoveDn THEN kNonbasicMoveUp ELSE move

\* basis_.col_status / row_status (v) with the status of element i flipped
FlippedStatus(v, i) ==
  [k \in DOMAIN v |-> IF k = i + 1 THEN FlipStatus(v[k]) ELSE v[k]]

\* nonbasicMove_ (v) with the move of variable i flipped
FlippedMove(v, i) ==
  [k \in DOMAIN v |-> IF k = i + 1 THEN FlipMove(v[k]) ELSE v[k]]

\* HighsStatus Highs::scaleColInterface(col, scale_value).
\* applyScalingToLpCol: the column's matrix entries and cost are multiplied by
\* scale_value, its bounds divided by it (and swapped when it is negative).
ScaleColInterface(col, scale_value) ==
  LET error == col < 0 \/ col >= num_col_ \/ scale_value = 0
      lower == ScaledDown(At(col_lower_, col), scale_value)
      upper == ScaledDown(At(col_upper_, col), scale_value)
  IN /\ lastOp' = "scaleColInterface"
     /\ UNCHANGED <<num_col_, num_row_, row_lower_, row_upper_, integrality_,
                    user_bound_scale_, user_cost_scale_, basis_valid,
                    row_status, has_basis, basicIndex_, nonbasicFlag_,
                    workVars, solveVars, historyVars>>
     /\ IF error
        THEN /\ last_return' = "kError"
             /\ UNCHANGED <<col_cost_, col_lower_, col_upper_, a_matrix_,
                            col_status, nonbasicMove_, model_status_,
                            solution_valid, info_valid>>
        ELSE /\ last_return' = "kOk"
             /\ a_matrix_' =
                  Put(a_matrix_, col,
                      {<<e[1], e[2] * scale_value>> : e \in At(a_matrix_, col)})
             /\ col_cost_' =
                  Put(col_cost_, col, ScaledUp(At(col_cost_, col), scale_value))
             /\ col_lower_' =
                  Put(col_lower_, col, IF scale_value > 0 THEN lower ELSE upper)
             /\ col_upper_' =
                  Put(col_upper_, col, IF scale_value > 0 THEN upper ELSE lower)
             /\ col_status' =
                  IF scale_value < 0 /\ basis_valid
                  THEN FlippedStatus(col_status, col)
                  ELSE col_status
             /\ nonbasicMove_' =
                  IF initialised_for_solve /\ scale_value < 0 /\ has_basis
                  THEN FlippedMove(nonbasicMove_, col)
                  ELSE nonbasicMove_
             /\ InvalidateModelStatusSolutionAndInfo

\* HighsStatus Highs::scaleRowInterface(row, scale_value).
\* applyScalingToLpRow: the row's matrix entries and bounds are multiplied by
\* scale_value (the bounds swapped when it is negative).
ScaleRowInterface(row, scale_value) ==
  LET error == row < 0 \/ row >= num_row_ \/ scale_value = 0
      lower == ScaledUp(At(row_lower_, row), scale_value)
      upper == ScaledUp(At(row_upper_, row), scale_value)
  IN /\ lastOp' = "scaleRowInterface"
     /\ UNCHANGED <<num_col_, num_row_, col_cost_, col_lower_, col_upper_,
                    integrality_, user_bound_scale_, user_cost_scale_,
                    basis_valid, col_status, has_basis, basicIndex_,
                    nonbasicFlag_, workVars, solveVars, historyVars>>
     /\ IF error
        THEN /\ last_return' = "kError"
             /\ UNCHANGED <<row_lower_, row_upper_, a_matrix_, row_status,
                            nonbasicMove_, model_status_, solution_valid,
                            info_valid>>
        ELSE /\ last_return' = "kOk"
             /\ a_matrix_' =
                  [c \in DOMAIN a_matrix_ |->
                     {<<e[1], IF e[1] = row THEN e[2] * scale_value ELSE e[2]>> :
                        e \in a_matrix_[c]}]
             /\ row_lower_' =
                  Put(row_lower_, row, IF scale_value > 0 THEN lower ELSE upper)
             /\ row_upper_' =
                  Put(row_upper_, row, IF scale_value > 0 THEN upper ELSE lower)
             /\ row_status' =
                  IF scale_value < 0 /\ basis_valid
                  THEN FlippedStatus(row_status, row)
                  ELSE row_status
             /\ nonbasicMove_' =
                  IF initialised_for_solve /\ scale_value < 0 /\ has_basis
                  THEN FlippedMove(nonbasicMove_, num_col_ + row)
                  ELSE nonbasicMove_
             /\ InvalidateModelStatusSolutionAndInfo

\* ------------------------------------------------------ the factorization

\* the simplex basis held by the engine, as one value
CurrentBasis ==
  [has_basis |-> has_basis, basicIndex_ |-> basicIndex_,
   nonbasicFlag_ |-> nonbasicFlag_, nonbasicMove_ |-> nonbasicMove_]

\* the simplex basis after HighsStatus HEkk::setBasis()
LogicalBasis ==
  [has_basis |-> TRUE,
   basicIndex_ |-> [i \in 1..num_row_ |-> num_col_ + (i - 1)],
   nonbasicFlag_ |->
     [k \in 1..num_tot |->
        IF k - 1 < num_col_ THEN kNonbasicFlagTrue ELSE kNonbasicFlagFalse],
   nonbasicMove_ |-> [k \in 1..num_tot |-> SetBasisMove(k - 1)]]

\* the rows in which a basic variable has an entry: the row of a logical, the
\* rows of the entries of a column
PivotRows(iVar) ==
  IF iVar >= num_col_ THEN {iVar - num_col_}
  ELSE {e[1] : e \in {x \in At(a_matrix_, iVar) : x[2] # 0}}

\* the increasing sequence of the elements of a finite set of integers
Sorted(S) == [k \in 1..Cardinality(S) |-> KthSmallest(S, k)]

\* the assignments of pivots that factor_.build can make for a basis whose
\* columns have at most one entry each: a largest set of positions of
\* basicIndex with an entry each, no two in the same row
Pivotings(index) ==
  LET entry(P) == \A p \in P : PivotRows(index[p]) # {}
      apart(P) ==
        \A p, q \in P : p # q => PivotRows(index[p]) # PivotRows(index[q])
      ok(P) == entry(P) /\ apart(P)
      all == {P \in SUBSET (DOMAIN index) : ok(P)}
  IN {P \in all : \A Q \in all : Cardinality(Q) <= Cardinality(P)}

\* factor_.build for the pivoting P: the rank deficiency, the rows with no
\* pivot, the variables with no pivot, and basicIndex with each of these
\* variables replaced by the logical of a row with no pivot
FactorBuild(index, P) ==
  LET rows == UNION {PivotRows(index[p]) : p \in P}
      pvR == Sorted((0..(Len(index) - 1)) \ rows)
      pos == Sorted((DOMAIN index) \ P)
      k == Len(pos)
      at(p) == CHOOSE i \in 1..k : pos[i] = p
  IN [rank_deficiency |-> k,
      noPvR |-> pvR,
      noPvC |-> [i \in 1..k |-> index[pos[i]]],
      basicIndex_ |->
        [p \in DOMAIN index |->
           IF p \in P THEN index[p] ELSE num_col_ + pvR[at(p)]]]

\* the outcomes of factor_.build for a basis
FactorBuilds(index) == {FactorBuild(index, P) : P \in Pivotings(index)}

\* HEkk::computeFactor: <<has_invert, has_fresh_invert>> after a build
ComputeFactorInvert(build) ==
  IF build.rank_deficiency # 0 THEN <<FALSE, FALSE>> ELSE <<TRUE, TRUE>>

\* void HEkk::handleRankDeficiency(): nonbasicFlag_ with the logical of each
\* row with no pivot basic and each replaced variable nonbasic
RECURSIVE HandleRankDeficiencyFlag(_, _, _)
HandleRankDeficiencyFlag(flag, build, k) ==
  IF k = 0 THEN flag
  ELSE LET before == HandleRankDeficiencyFlag(flag, build, k - 1)
           variable_in == num_col_ + build.noPvR[k]
           variable_out == build.noPvC[k]
       IN Put(Put(before, variable_in, kNonbasicFlagFalse),
              variable_out, kNonbasicFlagTrue)

\* void HEkk::setNonbasicMove(): nonbasicMove_ for the given nonbasicFlag_
SetNonbasicMove(flag) ==
  [k \in 1..num_tot |->
     IF flag[k] = kNonbasicFlagFalse THEN kNonbasicMoveZe
     ELSE MoveFromBounds(LpLower(k - 1), LpUpper(k - 1))]

\* the value returned when the basis has to be known and is not:
\* -(HighsInt)HighsStatus::kError
NoBasisReturn == 1

\* the value initialiseSimplexLpBasisAndFactor returns when the build of the
\* basis reports the given rank deficiency
InitialiseReturn_Zero(only_from_known_basis, deficiency) == 0

InitialiseReturn(only_from_known_basis, deficiency) ==
  IF deficiency # 0 /\ only_from_known_basis THEN deficiency ELSE 0

\* whether initialiseSimplexLpBasisAndFactor factorizes again after it has
\* repaired a rank deficient basis
Refactorizes_Again == TRUE

Refactorizes == FALSE

\* HighsInt HEkk::initialiseSimplexLpBasisAndFactor(only_from_known_basis),
\* entered with the simplex basis b, as a value: the simplex basis, the status
\* of the factorization, the value returned and the number of calls of
\* computeFactor.  build is the outcome of factor_.build for the basis that is
\* factorized, again its outcome for the repaired basis.
InitialiseOutcome(only_from_known_basis, b, build, again) ==
  LET deficient == build.rank_deficiency # 0
      repair == deficient /\ ~only_from_known_basis
      flag == IF repair
              THEN HandleRankDeficiencyFlag(b.nonbasicFlag_, build,
                                            build.rank_deficiency)
              ELSE b.nonbasicFlag_
      last == IF repair /\ Refactorizes THEN again ELSE build
  IN [has_basis |-> TRUE,
      basicIndex_ |-> last.basicIndex_,
      nonbasicFlag_ |-> flag,
      nonbasicMove_ |-> IF repair THEN SetNonbasicMove(flag)
                        ELSE b.nonbasicMove_,
      has_invert |-> IF repair THEN TRUE ELSE ComputeFactorInvert(build)[1],
      has_fresh_invert |->
        IF repair THEN TRUE ELSE ComputeFactorInvert(build)[2],
      has_matrix |-> IF repair THEN FALSE ELSE has_matrix,
      update_count |-> 0,
      rank_deficiency |-> last.rank_deficiency,
      noPvR |-> last.noPvR,
      noPvC |-> last.noPvC,
      return |->
        InitialiseReturn(only_from_known_basis, build.rank_deficiency),
      calls |-> IF repair /\ Refactorizes THEN 2 ELSE 1]

\* the state after initialiseSimplexLpBasisAndFactor with the outcome r
InstallOutcome(r) ==
  /\ has_basis' = r.has_basis
  /\ basicIndex_' = r.basicIndex_
  /\ nonbasicFlag_' = r.nonbasicFlag_
  /\ nonbasicMove_' = r.nonbasicMove_
  /\ has_invert' = r.has_invert
  /\ has_fresh_invert' = r.has_fresh_invert
  /\ has_matrix' = r.has_matrix
  /\ update_count' = r.update_count
  /\ rank_deficiency' = r.rank_deficiency
  /\ noPvR' = r.noPvR
  /\ noPvC' = r.noPvC
  /\ initialise_return' = r.return
  /\ computeFactor_calls' = r.calls

\* the state after initialiseSimplexLpBasisAndFactor has returned because the
\* basis has to be known and is not
ReturnNoBasis ==
  /\ initialise_return' = NoBasisReturn
  /\ computeFactor_calls' = 0
  /\ UNCHANGED <<basisVars, has_invert, has_fresh_invert, has_matrix,
                 update_count, rank_deficiency, noPvR, noPvC>>

\* HighsInt HEkk::initialiseSimplexLpBasisAndFactor(only_from_known_basis)
InitialiseSimplexLpBasisAndFactor(only_from_known_basis) ==
  /\ lastOp' = IF only_from_known_basis THEN "initialiseKnown"
               ELSE "initialise"
  /\ UNCHANGED <<lpVars, hlVars, workVars, basic_variables, solveVars,
                 historyVars>>
  /\ IF ~has_basis /\ only_from_known_basis
     THEN ReturnNoBasis
     ELSE LET b == IF has_basis THEN CurrentBasis ELSE LogicalBasis
          IN \E build \in FactorBuilds(b.basicIndex_) :
               \E again \in IF Refactorizes
                            THEN FactorBuilds(build.basicIndex_)
                            ELSE {build} :
                 InstallOutcome(InitialiseOutcome(only_from_known_basis, b,
                                                  build, again))

\* HighsInt HEkk::computeFactor(), called by the drivers when they rebuild
ComputeFactor ==
  /\ has_basis
  /\ BasisDimensioned
  /\ \E build \in FactorBuilds(basicIndex_) :
       /\ basicIndex_' = build.basicIndex_
       /\ has_invert' = ComputeFactorInvert(build)[1]
       /\ has_fresh_invert' = ComputeFactorInvert(build)[2]
       /\ rank_deficiency' = build.rank_deficiency
       /\ noPvR' = build.noPvR
       /\ noPvC' = build.noPvC
  /\ update_count' = 0
  /\ computeFactor_calls' = 1
  /\ lastOp' = "computeFactor"
  /\ UNCHANGED <<has_basis, nonbasicFlag_, nonbasicMove_, has_matrix,
                 initialise_return, basic_variables, lpVars, hlVars, workVars,
                 solveVars, historyVars>>

\* variant: the factorization stays fresh
UpdatePivotsStatus_KeepsFresh ==
  /\ update_count' = update_count + 1
  /\ has_invert' = FALSE
  /\ computeFactor_calls' = 0
  /\ UNCHANGED <<has_fresh_invert, has_matrix, rank_deficiency, noPvR, noPvC,
                 initialise_return, basic_variables>>

\* updatePivots: the status of the factorization and the count of updates
UpdatePivotsStatus ==
  /\ update_count' = update_count + 1
  /\ has_invert' = FALSE
  /\ has_fresh_invert' = FALSE
  /\ computeFactor_calls' = 0
  /\ UNCHANGED <<has_matrix, rank_deficiency, noPvR, noPvC, initialise_return,
                 basic_variables>>

\* void HEkk::updatePivots(variable_in, row_out, move_out) with the status of
\* the factorization
UpdatePivotsFactor(variable_in, row_out, move_out) ==
  /\ UpdatePivots(variable_in, row_out, move_out)
  /\ UpdatePivotsStatus

\* variant: the data stay fresh from the rebuild
UpdatePivotsRebuild_KeepsFresh(variable_in, row_out, move_out) ==
  /\ UpdatePivotsFactor(variable_in, row_out, move_out)
  /\ UNCHANGED has_fresh_rebuild

\* void HEkk::updatePivots(variable_in, row_out, move_out) with all the
\* status flags it clears
UpdatePivotsRebuild(variable_in, row_out, move_out) ==
  /\ UpdatePivotsFactor(variable_in, row_out, move_out)
  /\ has_fresh_rebuild' = FALSE

\* variant: only the outgoing variable is counted
BasicLogicalsAfter_OutOnly(variable_in, variable_out) ==
  num_basic_logicals + (IF variable_out < num_col_ THEN 1 ELSE 0)

\* updatePivots: simplex_info_.num_basic_logicals after the pivot
BasicLogicalsAfter(variable_in, variable_out) ==
  num_basic_logicals + (IF variable_out < num_col_ THEN 1 ELSE 0)
                     - (IF variable_in < num_col_ THEN 1 ELSE 0)

\* void HEkk::updatePivots(variable_in, row_out, move_out) with the count of
\* the basic logicals
UpdatePivotsLogicals(variable_in, row_out, move_out) ==
  /\ UpdatePivotsRebuild(variable_in, row_out, move_out)
  /\ num_basic_logicals' =
       BasicLogicalsAfter(variable_in, At(basicIndex_, row_out))

\* HighsStatus HEkk::setBasis() with the count of the basic logicals
SetBasisLogicals ==
  /\ SetBasis
  /\ num_basic_logicals' = num_row_

\* the rebuild of a driver (HEkkDual::rebuild, HEkkPrimal::rebuild):
\* the basis matrix is factorized with full rank and the data are fresh
Rebuild ==
  /\ has_basis
  /\ has_invert' = TRUE
  /\ has_fresh_invert' = TRUE
  /\ has_fresh_rebuild' = TRUE
  /\ update_count' = 0
  /\ rank_deficiency' = 0
  /\ computeFactor_calls' = 1
  /\ lastOp' = "rebuild"
  /\ UNCHANGED <<has_matrix, noPvR, noPvC, initialise_return, basic_variables,
                 modelVars, solveVars, historyVars>>

\* the entry getBasicVariablesInterface writes for a basic variable
BasicVariableEntry(var) ==
  IF var < num_col_ THEN var ELSE -(1 + var - num_col_)

\* the status getBasicVariablesInterface returns when
\* formSimplexLpBasisAndFactor has returned the given status
GetBasicVariablesReturn(formed) == IF formed # "kOk" THEN formed ELSE "kOk"

\* whether the Highs basis can be passed to the engine: setBasis(basis)
HighsBasisConsistent ==
  /\ basis_valid
  /\ Len(col_status) = num_col_
  /\ Len(row_status) = num_row_
  /\ Cardinality(BasicVarsOf(col_status, row_status)) = num_row_

\* the simplex basis after HighsStatus HEkk::setBasis(const HighsBasis& basis)
\* with the basis held by Highs
HighsBasisPassed ==
  LET basic == BasicVarsOf(col_status, row_status)
      statusOf(iVar) ==
        IF iVar < num_col_ THEN At(col_status, iVar)
        ELSE At(row_status, iVar - num_col_)
  IN [has_basis |-> TRUE,
      basicIndex_ |-> [i \in 1..num_row_ |-> KthSmallest(basic, i)],
      nonbasicFlag_ |->
        [k \in 1..num_tot |->
           IF (k - 1) \in basic THEN kNonbasicFlagFalse
           ELSE kNonbasicFlagTrue],
      nonbasicMove_ |->
        [k \in 1..num_tot |->
           IF (k - 1) \in basic THEN 0
           ELSE MoveOfStatus(k - 1, statusOf(k - 1))]]

\* formSimplexLpBasisAndFactor(solver_object, only_from_known_basis = true):
\* the Highs basis is passed to an engine that has no simplex basis, then
\* initialiseSimplexLpBasisAndFactor is called; a nonzero value is kError
FormSimplexLpBasisAndFactor(formed) ==
  IF ~has_basis /\ ~HighsBasisConsistent
  THEN /\ formed = "kError"
       /\ UNCHANGED <<basisVars, factorVars>>
  ELSE LET b == IF has_basis THEN CurrentBasis ELSE HighsBasisPassed
       IN \E build \in FactorBuilds(b.basicIndex_) :
            LET r == InitialiseOutcome(TRUE, b, build, build)
            IN /\ formed = IF r.return # 0 THEN "kError" ELSE "kOk"
               /\ InstallOutcome(r)

\* HighsStatus Highs::getBasicVariablesInterface(HighsInt* basic_variables)
GetBasicVariablesInterface ==
  /\ lastOp' = "getBasicVariablesInterface"
  /\ UNCHANGED <<lpVars, basis_valid, col_status, row_status, model_status_,
                 solution_valid, info_valid, workVars, solveVars, historyVars>>
  /\ IF num_row_ = 0
     THEN /\ last_return' = "kOk"
          /\ UNCHANGED <<basisVars, factorVars>>
     ELSE IF ~basis_valid
     THEN /\ last_return' = "kError"
          /\ UNCHANGED <<basisVars, factorVars>>
     ELSE IF ~has_invert
     THEN \E formed \in {"kOk", "kError"} :
            /\ FormSimplexLpBasisAndFactor(formed)
            /\ last_return' = GetBasicVariablesReturn(formed)
            /\ basic_variables' =
                 IF GetBasicVariablesReturn(formed) # "kOk"
                 THEN basic_variables
                 ELSE [row \in 1..num_row_ |->
                         BasicVariableEntry(basicIndex_'[row])]
     ELSE /\ last_return' = "kOk"
          /\ basic_variables' =
               [row \in 1..num_row_ |-> BasicVariableEntry(basicIndex_[row])]
          /\ UNCHANGED <<basisVars, has_invert, has_fresh_invert, has_matrix,
                         update_count, rank_deficiency, noPvR, noPvC,
                         initialise_return, computeFactor_calls>>

\* ---------------------------------------------- specification of the basis
\* largest num_col_ + num_row_ the LP grows to
MaxTot == 2

FixedBounds == <<Unit, Unit>>
BoxedBounds == <<-Unit, 2 * Unit>>
LowerBounds == <<2 * Unit, kHighsInf>>
UpperBounds == <<-kHighsInf, 0>>
FreeBounds == <<-kHighsInf, kHighsInf>>

\* the bounds given to the columns and rows added to the LP
BasisBounds == {FixedBounds, BoxedBounds}

NewCol(b, cost, entries) ==
  [cost |-> cost, lower |-> b[1], upper |-> b[2], entries |-> entries]

NewRow(b, entries) == [lower |-> b[1], upper |-> b[2], entries |-> entries]

\* the hot starts given to setHotStartInterface: as getHotStart saved them
\* from a basis of an LP of these dimensions (any num_row_ distinct basic
\* variables with move 0, the nonbasic ones with a move up or down), and one
\* saved from an LP with another row
HotStarts ==
  {[pivot_var |-> q,
    nonbasicMove |->
      [k \in 1..num_tot |->
         IF \E i \in 1..num_row_ : q[i] = k - 1 THEN kNonbasicMoveZe ELSE mv]] :
     q \in {x \in [1..num_row_ -> 0..(num_tot - 1)] :
              \A i, j \in 1..num_row_ : i # j => x[i] # x[j]},
     mv \in {kNonbasicMoveDn, kNonbasicMoveUp}}
    \cup {[pivot_var |-> [i \in 1..(num_row_ + 1) |-> num_col_ + (i - 1)],
           nonbasicMove |-> [k \in 1..(num_tot + 1) |-> kNonbasicMoveZe]]}

InitBasisSpec ==
  /\ InitSolve
  /\ InitHistory
  /\ InitPerturb
  /\ InitModel
  /\ InitFactor
  /\ InitEdit
  /\ InitInf
  /\ InitOpt
  /\ InitCall
  /\ InitThreads
  /\ InitDual
  /\ InitBack

NextBasisStep ==
  \/ SetBasis
  \/ SetBasisHighs
  \/ GetHighsBasis
  \/ \E hot_start \in HotStarts : SetHotStartInterface(hot_start)
  \/ InitialiseWorkArrays
  \/ \E variable_in \in 0..(MaxTot - 1), row_out \in 0..(MaxTot - 1),
        move_out \in {-1, 1} :
       UpdatePivots(variable_in, row_out, move_out)
  \/ \E b \in BasisBounds :
       /\ basis_valid /\ has_basis /\ num_tot < MaxTot
       /\ AddColsInterface(1, 0, FALSE, FALSE, <<NewCol(b, Unit, <<>>)>>)
  \/ \E b \in BasisBounds :
       /\ basis_valid /\ has_basis /\ num_tot < MaxTot
       /\ AddRowsInterface(1, 0, FALSE, FALSE, <<NewRow(b, <<>>)>>)

\* the factorization is not followed here
NextBasis == NextBasisStep /\ UNCHANGED <<perturbVars, factorVars, editVars, infVars, optVars,
              callVars, threadVars, has_fresh_rebuild, num_basic_logicals, dualVars,
                backVars>>

Spec == InitBasisSpec /\ [][NextBasis]_vars

\* ------------------------------------------------------ properties of Spec

\* the variables of the LP
Variables == 0..(num_tot - 1)

\* the variables held in basicIndex_
BasicVariables == {basicIndex_[i] : i \in DOMAIN basicIndex_}

\* C1: whenever the engine has a simplex basis (after any sequence of
\* setBasis(), updatePivots with a nonbasic variable_in and a row of the
\* basis, and addColsInterface / addRowsInterface with a valid basis),
\* basicIndex_ has exactly num_row_ entries, all distinct and in
\* [0, num_col_ + num_row_), and nonbasicFlag_[v] = 0 exactly when v occurs in
\* basicIndex_.
C1_BasisConsistent ==
  has_basis =>
    /\ Len(basicIndex_) = num_row_
    /\ \A i \in DOMAIN basicIndex_ : basicIndex_[i] \in Variables
    /\ \A i, j \in DOMAIN basicIndex_ : i # j => basicIndex_[i] # basicIndex_[j]
    /\ Len(nonbasicFlag_) = num_tot
    /\ \A v \in Variables :
         (At(nonbasicFlag_, v) = kNonbasicFlagFalse) <=> (v \in BasicVariables)

\* a column was added to an LP whose basis holds a logical (its index was
\* shifted) after a pivot had made the basis other than the logical one
C1_Witness ==
  /\ lastOp = "addColsInterface"
  /\ last_return = "kOk"
  /\ has_basis
  /\ num_col_ > 0
  /\ \E i \in DOMAIN basicIndex_ : basicIndex_[i] >= num_col_

\* the operations C2 names
InstallsBasis ==
  \/ lastOp \in {"setBasis", "updatePivots"}
  \/ lastOp \in {"setBasisHighs", "setHotStartInterface"} /\ last_return = "kOk"

\* C2 as stated: in every state in which the basis has just been installed by
\* setBasis(), setBasis(HighsBasis) or setHotStartInterface, or changed by
\* updatePivots, every basic variable has nonbasicMove_ 0.
C2_BasicMoveZero ==
  (has_basis /\ InstallsBasis) =>
    \A v \in Variables :
      At(nonbasicFlag_, v) = kNonbasicFlagFalse => At(nonbasicMove_, v) = 0

\* ---------------------------------------- specification of the work arrays
\* SpecWork: an LP of one column and one row with its logical basis, after
\* allocateWorkAndBaseArrays, initialiseBound and
\* initialiseNonbasicValueAndMove (HEkk::initialiseForSolve); then any
\* sequence of the operations on the work arrays.

\* the bounds of the columns and rows of the LP
WorkBounds == {FixedBounds, BoxedBounds, LowerBounds, UpperBounds, FreeBounds}

WorkRowBounds == {BoxedBounds, LowerBounds, FreeBounds}

InitWorkSpec ==
  /\ InitSolve
  /\ InitHistory
  /\ InitPerturb
  /\ InitFactor
  /\ InitEdit
  /\ InitInf
  /\ InitOpt
  /\ InitCall
  /\ InitThreads
  /\ InitDual
  /\ InitBack
  /\ num_col_ = 1
  /\ num_row_ = 1
  /\ \E cb \in WorkBounds, rb \in WorkRowBounds :
       /\ col_lower_ = <<cb[1]>>
       /\ col_upper_ = <<cb[2]>>
       /\ row_lower_ = <<rb[1]>>
       /\ row_upper_ = <<rb[2]>>
  /\ col_cost_ = <<Unit>>
  /\ a_matrix_ = <<{<<0, Unit>>}>>
  /\ integrality_ = <<>>
  /\ user_bound_scale_ = 0
  /\ user_cost_scale_ = 0
  /\ basis_valid = FALSE
  /\ col_status = <<>>
  /\ row_status = <<>>
  /\ model_status_ = "kNotset"
  /\ solution_valid = FALSE
  /\ info_valid = FALSE
  /\ last_return = "none"
  /\ has_basis = TRUE
  /\ basicIndex_ = [i \in 1..num_row_ |-> num_col_ + (i - 1)]
  /\ nonbasicFlag_ =
       [k \in 1..num_tot |->
          IF k <= num_col_ THEN kNonbasicFlagTrue ELSE kNonbasicFlagFalse]
  /\ workLower_ = [k \in 1..num_tot |-> LpLower(k - 1)]
  /\ workUpper_ = [k \in 1..num_tot |-> LpUpper(k - 1)]
  /\ nonbasicMove_ =
       [k \in 1..num_tot |->
          NonbasicValueAndMove(nonbasicFlag_[k], workLower_[k], workUpper_[k],
                               IF k <= num_col_
                               THEN MoveFromBounds(workLower_[k], workUpper_[k])
                               ELSE 0,
                               0)[1]]
  /\ workValue_ =
       [k \in 1..num_tot |->
          NonbasicValueAndMove(nonbasicFlag_[k], workLower_[k], workUpper_[k],
                               nonbasicMove_[k], 0)[2]]
  /\ workDual_ = [k \in 1..num_tot |-> 0]
  /\ bounds_perturbed = FALSE
  /\ initialised_for_solve = TRUE
  /\ nvm_pending = FALSE

\* the reduced costs computeDual can leave: 0 for a basic variable
Duals ==
  {d \in [1..num_tot -> DualValues] :
     \A k \in 1..num_tot : nonbasicFlag_[k] = kNonbasicFlagFalse => d[k] = 0}

NextWorkStep ==
  \/ \E algorithm \in Algorithms, solve_phase \in SolvePhases,
        perturb \in BOOLEAN :
       InitialiseBound(algorithm, solve_phase, perturb)
  \/ InitialiseNonbasicValueAndMove
  \/ \E iCol \in 0..(MaxTot - 1) :
       /\ iCol \in Variables
       /\ At(nonbasicFlag_, iCol) = kNonbasicFlagTrue
       /\ FlipBound(iCol)
  \/ \E dual \in Duals : ComputeDual(dual)
  \/ \E allow_cost_perturbation \in BOOLEAN :
       CorrectDual(allow_cost_perturbation, 0)
  \/ \E variable_in \in 0..(MaxTot - 1), row_out \in 0..(MaxTot - 1),
        move_out \in {-1, 1} :
       UpdatePivots(variable_in, row_out, move_out)

\* the factorization is not followed here
NextWork == NextWorkStep /\ UNCHANGED <<perturbVars, factorVars, editVars, infVars, optVars,
              callVars, threadVars, has_fresh_rebuild, num_basic_logicals, dualVars,
                backVars>>

SpecWork == InitWorkSpec /\ [][NextWork]_vars

\* -------------------------------------------------- properties of SpecWork

\* variable v is nonbasic and its working bounds are neither equal nor both
\* infinite
NonbasicBounded(v) ==
  /\ At(nonbasicFlag_, v) = kNonbasicFlagTrue
  /\ At(workLower_, v) # At(workUpper_, v)
  /\ ~(At(workLower_, v) = -kHighsInf /\ At(workUpper_, v) = kHighsInf)

\* workValue_[v] is the bound nonbasicMove_[v] selects
ValueAtSelectedBound(v) ==
  /\ At(nonbasicMove_, v) = kNonbasicMoveUp
       => At(workValue_, v) = At(workLower_, v)
  /\ At(nonbasicMove_, v) = kNonbasicMoveDn
       => At(workValue_, v) = At(workUpper_, v)

\* C3 as stated: in every state reached by any sequence of initialiseBound,
\* initialiseNonbasicValueAndMove, flipBound, correctDual and updatePivots,
\* every nonbasic variable whose working bounds are neither equal nor both
\* infinite has workValue_ at the bound its move selects.
C3_ValueAtBound ==
  \A v \in Variables : NonbasicBounded(v) => ValueAtSelectedBound(v)

\* C3 amended: the same, in every state in which
\* initialiseNonbasicValueAndMove has run since the last initialiseBound
\* (initialiseBound replaces the working bounds and, except when it perturbs
\* them, leaves workValue_ at the bound that was).
C3_ValueAtBoundAfterNvm ==
  ~nvm_pending =>
    \A v \in Variables : NonbasicBounded(v) => ValueAtSelectedBound(v)

\* correctDual has just flipped or left a nonbasic boxed variable that sits at
\* its upper bound, with working bounds that are not those of the LP
C3_Witness ==
  /\ lastOp = "correctDual"
  /\ ~nvm_pending
  /\ \E v \in Variables :
       /\ NonbasicBounded(v)
       /\ At(nonbasicMove_, v) = kNonbasicMoveDn
       /\ At(workUpper_, v) < kHighsInf
       /\ At(workLower_, v) > -kHighsInf
       /\ At(workLower_, v) # LpLower(v)

\* ------------------------------------- specification of the Highs interface

\* Highs::run as the interface operations see it: it leaves a model status, a
\* solution and info
Run ==
  /\ model_status_' = "kOptimal"
  /\ solution_valid' = TRUE
  /\ info_valid' = TRUE
  /\ last_return' = "kOk"
  /\ lastOp' = "run"
  /\ UNCHANGED <<lpVars, basis_valid, col_status, row_status, basisVars,
                 workVars, solveVars, historyVars>>

\* the user scaling of bounds and costs in force: by 2^1
UserScale == 1

\* a finite value that this user scaling makes infinite
HugeValue == kHighsInf \div 2

\* the bounds of the columns and rows added to the LP
IfaceBounds == <<-Unit, Unit>>

\* the calls of addColsInterface: <<ext_num_new_col, ext_num_new_nz,
\* col_data_null, matrix_data_null, cols>>
AddColsCalls ==
  LET plain == NewCol(IfaceBounds, Unit, <<>>)
      entry == NewCol(IfaceBounds, Unit, <<<<0, Unit>>>>)
      duplicate == NewCol(IfaceBounds, Unit, <<<<0, Unit>>, <<0, Unit>>>>)
  IN {<<-1, 0, FALSE, FALSE, <<>>>>,
      <<1, -1, FALSE, FALSE, <<plain>>>>,
      <<0, 0, FALSE, FALSE, <<>>>>,
      <<1, 0, TRUE, FALSE, <<plain>>>>,
      <<1, 1, FALSE, TRUE, <<entry>>>>,
      <<1, 1, FALSE, FALSE, <<entry>>>>,
      <<1, 2, FALSE, FALSE, <<duplicate>>>>,
      <<1, 0, FALSE, FALSE, <<NewCol(<<kHighsInf, kHighsInf>>, Unit, <<>>)>>>>,
      <<1, 0, FALSE, FALSE, <<NewCol(<<0, HugeValue>>, Unit, <<>>)>>>>,
      <<1, 0, FALSE, FALSE, <<NewCol(IfaceBounds, HugeValue, <<>>)>>>>,
      <<1, 0, FALSE, FALSE, <<plain>>>>}

\* the calls of addRowsInterface: <<ext_num_new_row, ext_num_new_nz,
\* row_data_null, matrix_data_null, rows>>
AddRowsCalls ==
  LET plain == NewRow(IfaceBounds, <<>>)
      entry == NewRow(IfaceBounds, <<<<0, Unit>>>>)
      duplicate == NewRow(IfaceBounds, <<<<0, Unit>>, <<0, Unit>>>>)
  IN {<<-1, 0, FALSE, FALSE, <<>>>>,
      <<1, -1, FALSE, FALSE, <<plain>>>>,
      <<0, 0, FALSE, FALSE, <<>>>>,
      <<1, 0, TRUE, FALSE, <<plain>>>>,
      <<1, 1, FALSE, TRUE, <<entry>>>>,
      <<1, 1, FALSE, FALSE, <<entry>>>>,
      <<1, 2, FALSE, FALSE, <<duplicate>>>>,
      <<1, 0, FALSE, FALSE, <<NewRow(<<kHighsInf, kHighsInf>>, <<>>)>>>>,
      <<1, 0, FALSE, FALSE, <<NewRow(<<0, HugeValue>>, <<>>)>>>>,
      <<1, 0, FALSE, FALSE, <<plain>>>>}

\* the index collections given to the delete operations for a dimension: one
\* index, or none
Collections(dimension) ==
  {[from_ |-> i, to_ |-> i] : i \in 0..(dimension - 1)}
    \cup {[from_ |-> 0, to_ |-> -1]}

\* the index collections given to the change operations: the first index, or
\* none
FirstIndex(dimension) ==
  {[from_ |-> 0, to_ |-> i] : i \in {-1, 0} \cap -1..(dimension - 1)}

\* the bounds given to changeColBoundsInterface / changeRowBoundsInterface
ChangedBounds == {<<0, 0>>, <<kHighsInf, kHighsInf>>, <<0, HugeValue>>}

\* the costs given to changeCostsInterface
ChangedCosts == {-Unit, HugeValue}

InitIfaceSpec ==
  /\ InitSolve
  /\ InitHistory
  /\ InitPerturb
  /\ InitFactor
  /\ InitEdit
  /\ InitInf
  /\ InitOpt
  /\ InitCall
  /\ InitThreads
  /\ InitDual
  /\ InitBack
  /\ num_col_ = 0
  /\ num_row_ = 0
  /\ col_cost_ = <<>>
  /\ col_lower_ = <<>>
  /\ col_upper_ = <<>>
  /\ row_lower_ = <<>>
  /\ row_upper_ = <<>>
  /\ a_matrix_ = <<>>
  /\ integrality_ = <<>>
  /\ user_bound_scale_ = UserScale
  /\ user_cost_scale_ = UserScale
  /\ basis_valid = FALSE
  /\ col_status = <<>>
  /\ row_status = <<>>
  /\ model_status_ = "kNotset"
  /\ solution_valid = FALSE
  /\ info_valid = FALSE
  /\ last_return = "none"
  /\ has_basis = FALSE
  /\ basicIndex_ = <<>>
  /\ nonbasicFlag_ = <<>>
  /\ nonbasicMove_ = <<>>
  /\ workLower_ = <<>>
  /\ workUpper_ = <<>>
  /\ workValue_ = <<>>
  /\ workDual_ = <<>>
  /\ bounds_perturbed = FALSE
  /\ initialised_for_solve = FALSE
  /\ nvm_pending = FALSE

NextIfaceStep ==
  \/ Run
  \/ \E c \in AddColsCalls :
       /\ AddColsBranch(c[1], c[2], c[3], c[4], c[5]) = "ok" => num_tot < MaxTot
       /\ AddColsInterface(c[1], c[2], c[3], c[4], c[5])
  \/ \E c \in AddRowsCalls :
       /\ AddRowsBranch(c[1], c[2], c[3], c[4], c[5]) = "ok" => num_tot < MaxTot
       /\ AddRowsInterface(c[1], c[2], c[3], c[4], c[5])
  \/ \E index_collection \in Collections(num_col_) :
       DeleteColsInterface(index_collection)
  \/ \E index_collection \in Collections(num_row_) :
       DeleteRowsInterface(index_collection)
  \/ \E index_collection \in FirstIndex(num_col_), data_null \in BOOLEAN :
       ChangeIntegralityInterface(index_collection, data_null, <<"kInteger">>)
  \/ \E index_collection \in FirstIndex(num_col_), data_null \in BOOLEAN,
        cost \in ChangedCosts :
       ChangeCostsInterface(index_collection, data_null, <<cost>>)
  \/ \E index_collection \in FirstIndex(num_col_), data_null \in BOOLEAN,
        b \in ChangedBounds :
       ChangeColBoundsInterface(index_collection, data_null, <<b[1]>>, <<b[2]>>)
  \/ \E index_collection \in FirstIndex(num_row_), data_null \in BOOLEAN,
        b \in ChangedBounds :
       ChangeRowBoundsInterface(index_collection, data_null, <<b[1]>>, <<b[2]>>)
  \/ \E ext_new_value \in {0, -Unit} :
       ChangeCoefficientInterface(0, 0, ext_new_value)
  \/ \E col \in {-1, 0, num_col_}, scale_value \in {-1, 0} :
       ScaleColInterface(col, scale_value)
  \/ \E row \in {-1, 0, num_row_}, scale_value \in {-1, 0} :
       ScaleRowInterface(row, scale_value)

\* the factorization is not followed here
NextIface == NextIfaceStep /\ UNCHANGED <<perturbVars, factorVars, editVars, infVars, optVars,
              callVars, threadVars, has_fresh_rebuild, num_basic_logicals, dualVars,
                backVars>>

SpecIface == InitIfaceSpec /\ [][NextIface]_vars

\* ------------------------------------------------- properties of SpecIface

\* the state C4 says an Error return leaves alone
C4_State ==
  <<num_col_, num_row_, col_cost_, col_lower_, col_upper_, row_lower_,
    row_upper_, a_matrix_, basis_valid, col_status, row_status, basisVars,
    model_status_>>

\* C4: whenever addColsInterface or addRowsInterface returns Error, the LP's
\* cost and bound vectors, constraint matrix and dimensions, the basis and
\* the model status are identical to their values before the call.
C4_ErrorLeavesStateUnchanged ==
  [][(/\ lastOp' \in {"addColsInterface", "addRowsInterface"}
      /\ last_return' = "kError") => UNCHANGED C4_State]_vars

\* the mutating interface operations
MutatingOperations ==
  {"addColsInterface", "addRowsInterface", "deleteColsInterface",
   "deleteRowsInterface", "changeIntegralityInterface",
   "changeCostsInterface", "changeColBoundsInterface",
   "changeRowBoundsInterface", "changeCoefficientInterface",
   "scaleColInterface", "scaleRowInterface"}

\* this step is a call of one of the operations ops that did not return Error
\* and changed the model
MutatedBy(ops) ==
  /\ lastOp' \in ops
  /\ last_return' # "kError"
  /\ lpVars' # lpVars

\* C6 as stated: after every successful call of a mutating interface operation
\* that changes the model, the model status is NotSet and the solution and
\* the derived info are marked invalid.
C6_MutationInvalidatesAll ==
  [][MutatedBy(MutatingOperations)
       => (model_status_' = "kNotset" /\ ~solution_valid' /\ ~info_valid')]_vars

\* C6 as the code has it: that holds of every mutating operation but
\* changeIntegralityInterface, which leaves the model status NotSet and the
\* validity of the solution and of the derived info as it was.
C6_MutationInvalidates ==
  [][/\ MutatedBy(MutatingOperations \ {"changeIntegralityInterface"})
          => (model_status_' = "kNotset" /\ ~solution_valid' /\ ~info_valid')
     /\ MutatedBy({"changeIntegralityInterface"})
          => (/\ model_status_' = "kNotset"
              /\ UNCHANGED <<solution_valid, info_valid>>)]_vars

\* changeIntegralityInterface has changed the integrality of a model that had
\* been solved: the status is reset, the solution and the info are still valid
C6_Witness ==
  /\ lastOp = "changeIntegralityInterface"
  /\ last_return = "kOk"
  /\ integrality_ # <<>>
  /\ model_status_ = "kNotset"
  /\ solution_valid
  /\ info_valid

\* --------------------------------------- specification of the factorization

\* the largest number of updates of the factorization before it is rebuilt
MaxUpdate == 1

\* the second column of the LP of SpecFactor: empty, or in the row of the
\* first column
SecondColumns == {{}, {<<0, Unit>>}}

\* the bases the user gives Highs, as <<valid, col_status, row_status>>: both
\* columns basic, the first column and the second row, the logical basis, a
\* basis with too few basic variables and no basis
UserBases ==
  {<<TRUE, <<"kBasic", "kBasic">>, <<"kLower", "kLower">>>>,
   <<TRUE, <<"kBasic", "kLower">>, <<"kLower", "kBasic">>>>,
   <<TRUE, <<"kLower", "kLower">>, <<"kBasic", "kBasic">>>>,
   <<TRUE, <<"kLower", "kLower">>, <<"kLower", "kBasic">>>>,
   <<FALSE, <<>>, <<>>>>}

\* an LP of two columns and two rows, all of them fixed at zero, whose first
\* column has one entry in row 0; Highs holds a basis given by the user, valid or not, and the engine has
\* no simplex basis
InitFactorSpec ==
  /\ InitSolve
  /\ InitHistory
  /\ InitPerturb
  /\ InitFactor
  /\ InitEdit
  /\ InitInf
  /\ InitOpt
  /\ InitCall
  /\ InitThreads
  /\ InitDual
  /\ InitBack
  /\ num_col_ = 2
  /\ num_row_ = 2
  /\ col_cost_ = <<Unit, Unit>>
  /\ col_lower_ = <<0, 0>>
  /\ col_upper_ = <<0, 0>>
  /\ row_lower_ = <<0, 0>>
  /\ row_upper_ = <<0, 0>>
  /\ \E second \in SecondColumns : a_matrix_ = <<{<<0, Unit>>}, second>>
  /\ integrality_ = <<>>
  /\ user_bound_scale_ = 0
  /\ user_cost_scale_ = 0
  /\ \E user \in UserBases :
       /\ basis_valid = user[1]
       /\ col_status = user[2]
       /\ row_status = user[3]
  /\ model_status_ = "kNotset"
  /\ solution_valid = FALSE
  /\ info_valid = FALSE
  /\ last_return = "none"
  /\ has_basis = FALSE
  /\ basicIndex_ = <<>>
  /\ nonbasicFlag_ = <<>>
  /\ nonbasicMove_ = <<>>
  /\ workLower_ = <<>>
  /\ workUpper_ = <<>>
  /\ workValue_ = <<>>
  /\ workDual_ = <<>>
  /\ bounds_perturbed = FALSE
  /\ initialised_for_solve = FALSE
  /\ nvm_pending = FALSE

NextFactorStep ==
  \/ \E only_from_known_basis \in BOOLEAN :
       InitialiseSimplexLpBasisAndFactor(only_from_known_basis)
  \/ ComputeFactor
  \/ GetBasicVariablesInterface
  \/ InitialiseWorkArrays /\ UNCHANGED factorVars
  \/ \E variable_in \in 0..3, row_out \in 0..1 :
       /\ update_count < MaxUpdate
       /\ UpdatePivotsFactor(variable_in, row_out, 1)

\* no column is added and nothing is deleted here
NextFactor == NextFactorStep /\ UNCHANGED <<perturbVars, editVars, infVars, optVars,
              callVars, threadVars, has_fresh_rebuild, num_basic_logicals, dualVars,
                backVars>>

SpecFactor == InitFactorSpec /\ [][NextFactor]_vars

\* ---------------------------------------------- properties of SpecFactor

\* the variables factor_.build found without a pivot are still flagged basic
\* and the logicals put in their place are still flagged nonbasic
NotRepaired ==
  \A k \in DOMAIN noPvC :
    /\ At(nonbasicFlag_, noPvC[k]) = kNonbasicFlagFalse
    /\ At(nonbasicFlag_, num_col_ + noPvR[k]) = kNonbasicFlagTrue

\* nonbasicFlag_ follows the replacements of factor_.build
Repaired ==
  \A k \in DOMAIN noPvC :
    /\ At(nonbasicFlag_, noPvC[k]) = kNonbasicFlagTrue
    /\ At(nonbasicFlag_, num_col_ + noPvR[k]) = kNonbasicFlagFalse

\* a step of getBasicVariablesInterface that has to form the factorization
FormsFactor ==
  /\ lastOp' = "getBasicVariablesInterface"
  /\ num_row_ # 0
  /\ basis_valid
  /\ ~has_invert

\* C11: initialiseSimplexLpBasisAndFactor(only_from_known_basis = true)
\* returns the positive rank deficiency whenever the factorization of the
\* supplied basis is rank deficient, and a nonzero value when no basis is
\* known; in both cases it installs no logical basis and does not repair
\* nonbasicFlag_; getBasicVariablesInterface then returns Error, writes
\* nothing to basic_variables and leaves the LP as it was.
C11_KnownBasisOnly ==
  [][/\ (lastOp' = "initialiseKnown" /\ ~has_basis)
          => /\ initialise_return' # 0
             /\ computeFactor_calls' = 0
             /\ UNCHANGED basisVars
     /\ (lastOp' = "initialiseKnown" /\ has_basis /\ rank_deficiency' > 0)
          => /\ initialise_return' = rank_deficiency'
             /\ UNCHANGED <<has_basis, nonbasicFlag_, nonbasicMove_>>
             /\ ~has_invert'
     /\ (FormsFactor /\ ~has_invert')
          => /\ last_return' = "kError"
             /\ UNCHANGED <<basic_variables, lpVars>>
     /\ (FormsFactor /\ has_basis /\ ~has_invert')
          => /\ rank_deficiency' > 0
             /\ initialise_return' = rank_deficiency'
             /\ UNCHANGED <<nonbasicFlag_, nonbasicMove_>>
     /\ (FormsFactor /\ ~has_basis /\ has_basis' /\ rank_deficiency' > 0)
          => /\ last_return' = "kError"
             /\ initialise_return' = rank_deficiency'
             /\ NotRepaired'
             /\ UNCHANGED <<basic_variables, lpVars>>]_vars

\* getBasicVariablesInterface has returned Error for a basis given by the user
\* whose factorization is rank deficient: the variable without a pivot is
\* still flagged basic
C11_Witness ==
  /\ lastOp = "getBasicVariablesInterface"
  /\ last_return = "kError"
  /\ computeFactor_calls = 1
  /\ rank_deficiency > 0
  /\ initialise_return = rank_deficiency
  /\ basic_variables = <<>>
  /\ NotRepaired

\* C12 as stated: when initialiseSimplexLpBasisAndFactor(only_from_known_basis
\* = false) exits with has_invert / has_fresh_invert true, the basis it holds
\* has been factorized, after any repair, by a factorization that reported
\* rank deficiency 0.
C12_InvertOnlyAfterFullRankFactor ==
  (lastOp = "initialise" /\ (has_invert \/ has_fresh_invert))
    => rank_deficiency = 0

\* C12 as the code has it: initialiseSimplexLpBasisAndFactor(
\* only_from_known_basis = false) factorizes once; when that factorization
\* reports rank deficiency k > 0, nonbasicFlag_ is repaired by
\* handleRankDeficiency and has_invert / has_fresh_invert are set true
\* without another factorization, the factors held being those of the basis
\* with the k replacements.
C12_InvertAfterOneFactor ==
  lastOp = "initialise"
    => /\ computeFactor_calls = 1
       /\ initialise_return = 0
       /\ has_basis
       /\ has_invert
       /\ has_fresh_invert
       /\ Len(noPvC) = rank_deficiency
       /\ Repaired
       /\ \A k \in DOMAIN noPvR :
            \E i \in DOMAIN basicIndex_ : basicIndex_[i] = num_col_ + noPvR[k]

\* initialiseSimplexLpBasisAndFactor(false) has exited with has_invert true
\* after one factorization, which reported a rank deficiency
C12_Witness ==
  /\ lastOp = "initialise"
  /\ computeFactor_calls = 1
  /\ rank_deficiency > 0
  /\ has_invert
  /\ has_fresh_invert
  /\ Repaired

\* ------------------------------ specification of the edits of an LP with a basis

\* largest num_col_ + num_row_ an edited LP grows to
MaxEdit == 3

SymmetricBounds == <<-Unit, Unit>>

\* the bounds of the column and of the row an edited LP starts with
FirstBounds == {BoxedBounds, LowerBounds}

\* the bounds of the columns and rows added to an edited LP: one pair of each
\* class, and a boxed pair whose bounds have the same absolute value
EditBounds ==
  {FixedBounds, BoxedBounds, SymmetricBounds, LowerBounds, UpperBounds,
   FreeBounds}

\* an LP of one column and one row with a valid basis of Highs and the same
\* basis in the engine, as Highs::run leaves them: one of the two variables
\* is basic, the other is nonbasic at a bound its bounds allow
InitEditSpec ==
  /\ InitSolve
  /\ InitHistory
  /\ InitPerturb
  /\ InitFactor
  /\ InitEdit
  /\ InitInf
  /\ InitOpt
  /\ InitCall
  /\ InitThreads
  /\ InitDual
  /\ InitBack
  /\ num_col_ = 1
  /\ num_row_ = 1
  /\ col_cost_ = <<Unit>>
  /\ \E cb \in FirstBounds, rb \in FirstBounds :
       /\ col_lower_ = <<cb[1]>>
       /\ col_upper_ = <<cb[2]>>
       /\ row_lower_ = <<rb[1]>>
       /\ row_upper_ = <<rb[2]>>
  /\ a_matrix_ = <<{<<0, Unit>>}>>
  /\ integrality_ = <<>>
  /\ user_bound_scale_ = 0
  /\ user_cost_scale_ = 0
  /\ has_basis = TRUE
  /\ \E q \in 0..1 :
       /\ basicIndex_ = <<q>>
       /\ nonbasicFlag_ =
            [k \in 1..2 |->
               IF k - 1 = q THEN kNonbasicFlagFalse ELSE kNonbasicFlagTrue]
  /\ nonbasicMove_ = SetNonbasicMove(nonbasicFlag_)
  /\ basis_valid = TRUE
  /\ col_status = <<StatusOfMove(0)>>
  /\ row_status = <<StatusOfMove(1)>>
  /\ model_status_ = "kOptimal"
  /\ solution_valid = TRUE
  /\ info_valid = TRUE
  /\ last_return = "kOk"
  /\ workLower_ = <<>>
  /\ workUpper_ = <<>>
  /\ workValue_ = <<>>
  /\ workDual_ = <<>>
  /\ bounds_perturbed = FALSE
  /\ initialised_for_solve = FALSE
  /\ nvm_pending = FALSE

\* the LP and the basis of Highs, as addColsInterface given
\* ext_num_new_col columns finds them
BeforeAdd(ext_num_new_col) ==
  [num_new_col |-> ext_num_new_col,
   num_col_ |-> num_col_,
   num_row_ |-> num_row_,
   col_cost_ |-> col_cost_,
   col_lower_ |-> col_lower_,
   col_upper_ |-> col_upper_,
   row_lower_ |-> row_lower_,
   row_upper_ |-> row_upper_,
   a_matrix_ |-> a_matrix_,
   basis_valid |-> basis_valid,
   col_status |-> col_status,
   row_status |-> row_status]

\* the masks of a dimension
Masks(dimension) == {[mask_ |-> m] : m \in [1..dimension -> {0, 1}]}

\* the index collections given to deleteColsInterface / deleteRowsInterface:
\* one index, none, or a mask
DeleteCollections(dimension) == Collections(dimension) \cup Masks(dimension)

\* columns and rows are added while the basis of Highs is valid
NextEditStep ==
  \/ \E b \in EditBounds, k \in 1..2 :
       /\ basis_valid
       /\ num_tot + k <= MaxEdit
       /\ AddColsInterface(k, 0, FALSE, FALSE,
                           [i \in 1..k |-> NewCol(b, Unit, <<>>)])
       /\ before_add' = BeforeAdd(k)
       /\ UNCHANGED <<mask_, before_handle>>
  \/ \E b \in FirstBounds :
       /\ basis_valid
       /\ num_tot < MaxEdit
       /\ AddRowsInterface(1, 0, FALSE, FALSE, <<NewRow(b, <<>>)>>)
       /\ UNCHANGED editVars
  \/ \E index_collection \in DeleteCollections(num_col_) :
       /\ DeleteColsInterface(index_collection)
       /\ UNCHANGED <<before_add, before_handle>>
  \/ \E index_collection \in DeleteCollections(num_row_) :
       /\ DeleteRowsInterface(index_collection)
       /\ UNCHANGED <<before_add, before_handle>>

\* the factorization is not followed here
NextEdit == NextEditStep /\ UNCHANGED <<perturbVars, factorVars, infVars, optVars,
              callVars, threadVars, has_fresh_rebuild, num_basic_logicals, dualVars,
                backVars>>

SpecEdit == InitEditSpec /\ [][NextEdit]_vars

\* ------------------------------------------------- properties of SpecEdit

\* a step of addRowsInterface that adds rows to an LP with a valid basis and
\* a simplex basis
AddsRows ==
  /\ lastOp' = "addRowsInterface"
  /\ last_return' = "kOk"
  /\ num_row_' > num_row_
  /\ basis_valid
  /\ has_basis

\* the new slacks are basic and appended to basicIndex_
NewSlacksBasic ==
  /\ Len(basicIndex_') = num_row_'
  /\ Len(nonbasicFlag_') = num_tot'
  /\ Len(nonbasicMove_') = num_tot'
  /\ \A iRow \in num_row_..(num_row_' - 1) :
       /\ At(basicIndex_', iRow) = num_col_ + iRow
       /\ At(nonbasicFlag_', num_col_ + iRow) = kNonbasicFlagFalse
       /\ At(nonbasicMove_', num_col_ + iRow) = 0
       /\ At(row_status', iRow) = "kBasic"

\* C13 as stated: after addRowsInterface adds n' > 0 rows to an LP with n
\* columns that has a valid basis and a simplex basis, every basicIndex_ entry
\* that denoted a basic slack (an index >= n) has been shifted by n', each
\* existing slack keeps its nonbasicFlag_ / nonbasicMove_ at its new index,
\* and the n' new slacks are basic and appended to basicIndex_.
C13_AddRowsShiftsSlacks ==
  [][AddsRows =>
       LET added == num_row_' - num_row_
       IN /\ \A iRow \in 0..(num_row_ - 1) :
               At(basicIndex_', iRow) =
                 IF At(basicIndex_, iRow) >= num_col_
                 THEN At(basicIndex_, iRow) + added
                 ELSE At(basicIndex_, iRow)
          /\ NewSlacksBasic]_vars

\* C13 as the code has it: addRowsInterface shifts nothing, the slack of row
\* i being variable n + i before and after: every entry of basicIndex_,
\* nonbasicFlag_ and nonbasicMove_ and every status of the basis of Highs
\* that was there before the call is unchanged, and the n' new slacks are
\* basic and appended to basicIndex_.
C13_AddRowsAppendsSlacks ==
  [][AddsRows =>
       /\ \A iRow \in 0..(num_row_ - 1) :
            /\ At(basicIndex_', iRow) = At(basicIndex_, iRow)
            /\ At(row_status', iRow) = At(row_status, iRow)
       /\ \A iVar \in 0..(num_tot - 1) :
            /\ At(nonbasicFlag_', iVar) = At(nonbasicFlag_, iVar)
            /\ At(nonbasicMove_', iVar) = At(nonbasicMove_, iVar)
       /\ col_status' = col_status
       /\ NewSlacksBasic]_vars

\* addRowsInterface has added a row to an LP whose first row has a basic
\* slack: the slack is still variable n + 0 and the new slack is basic
C13_Witness ==
  /\ lastOp = "addRowsInterface"
  /\ last_return = "kOk"
  /\ basis_valid
  /\ has_basis
  /\ num_col_ = 1
  /\ num_row_ = 2
  /\ basicIndex_ = <<1, 2>>
  /\ nonbasicFlag_ = <<1, 0, 0>>

\* a step of addColsInterface that adds columns to an LP with a valid basis
\* and a simplex basis
AddsCols ==
  /\ lastOp' = "addColsInterface"
  /\ last_return' = "kOk"
  /\ num_col_' > num_col_
  /\ basis_valid
  /\ has_basis

\* the class of a pair of bounds
BoundsClass(lower, upper) ==
  IF lower = upper THEN "fixed"
  ELSE IF lower > -kHighsInf /\ upper < kHighsInf THEN "boxed"
  ELSE IF lower > -kHighsInf THEN "lower"
  ELSE IF upper < kHighsInf THEN "upper"
  ELSE "free"

\* C14: after addColsInterface succeeds on an LP with a valid basis, every new
\* column is nonbasic with a status determined by its bounds: fixed -> Lower
\* with move 0; boxed -> the bound of smaller absolute value (Upper when
\* |lower| = |upper|); lower-only -> Lower with move +1; upper-only -> Upper
\* with move -1; free -> Zero with move 0; the status of every existing
\* column and row is unchanged.
C14_NewColumnsNonbasic ==
  [][AddsCols =>
       LET added == num_col_' - num_col_
       IN /\ \A iCol \in num_col_..(num_col_' - 1) :
               LET lower == At(col_lower_', iCol)
                   upper == At(col_upper_', iCol)
                   class == BoundsClass(lower, upper)
                   status == At(col_status', iCol)
                   move == At(nonbasicMove_', iCol)
               IN /\ At(nonbasicFlag_', iCol) = kNonbasicFlagTrue
                  /\ class = "fixed" => (status = "kLower" /\ move = 0)
                  /\ (class = "boxed" /\ Abs(lower) < Abs(upper))
                       => (status = "kLower" /\ move = 1)
                  /\ (class = "boxed" /\ Abs(lower) >= Abs(upper))
                       => (status = "kUpper" /\ move = -1)
                  /\ class = "lower" => (status = "kLower" /\ move = 1)
                  /\ class = "upper" => (status = "kUpper" /\ move = -1)
                  /\ class = "free" => (status = "kZero" /\ move = 0)
          /\ \A iCol \in 0..(num_col_ - 1) :
               /\ At(col_status', iCol) = At(col_status, iCol)
               /\ At(nonbasicFlag_', iCol) = At(nonbasicFlag_, iCol)
               /\ At(nonbasicMove_', iCol) = At(nonbasicMove_, iCol)
          /\ row_status' = row_status
          /\ \A iRow \in 0..(num_row_ - 1) :
               /\ At(nonbasicFlag_', num_col_' + iRow) =
                    At(nonbasicFlag_, num_col_ + iRow)
               /\ At(nonbasicMove_', num_col_' + iRow) =
                    At(nonbasicMove_, num_col_ + iRow)]_vars

\* addColsInterface has added a boxed column whose bounds have the same
\* absolute value to an LP with a basic column: the new column is at its
\* upper bound
C14_Witness ==
  /\ lastOp = "addColsInterface"
  /\ last_return = "kOk"
  /\ basis_valid
  /\ has_basis
  /\ num_col_ = 2
  /\ At(col_lower_, 1) = -Unit
  /\ At(col_upper_, 1) = Unit
  /\ col_status = <<"kBasic", "kUpper">>
  /\ At(nonbasicMove_, 1) = -1

\* the status of Highs that the bounds and the move of a nonbasic variable
\* imply
ImpliedStatus(iVar) ==
  LET move == At(nonbasicMove_, iVar)
  IN IF LpLower(iVar) = LpUpper(iVar) THEN "kLower"
     ELSE IF move = kNonbasicMoveUp
          THEN IF iVar < num_col_ THEN "kLower" ELSE "kUpper"
     ELSE IF move = kNonbasicMoveDn
          THEN IF iVar < num_col_ THEN "kUpper" ELSE "kLower"
     ELSE "kZero"

\* the status Highs holds for variable iVar
HighsStatusOf(iVar) ==
  IF iVar < num_col_ THEN At(col_status, iVar)
  ELSE At(row_status, iVar - num_col_)

\* C15: after setHotStartInterface returns Ok, whatever basis was held before
\* the call, nonbasicFlag_[v] = 0 exactly for the variables in basicIndex_,
\* the status Highs holds for every column and every row is Basic exactly
\* when that variable is in basicIndex_ and otherwise Lower, Upper or Zero as
\* implied by its bounds and move, and basis.valid and has_basis are true.
C15_HotStartInstallsBasis ==
  (lastOp = "setHotStartInterface" /\ last_return = "kOk")
    => /\ basis_valid
       /\ has_basis
       /\ Len(basicIndex_) = num_row_
       /\ Len(col_status) = num_col_
       /\ Len(row_status) = num_row_
       /\ \A iVar \in Variables :
            /\ At(nonbasicFlag_, iVar) = kNonbasicFlagFalse
                 <=> iVar \in BasicVariables
            /\ HighsStatusOf(iVar) = "kBasic" <=> iVar \in BasicVariables
            /\ iVar \notin BasicVariables
                 => HighsStatusOf(iVar) = ImpliedStatus(iVar)

\* ------------------------------ specification of changed bounds with a basis

\* an LP of one column and one row with a valid basis of Highs in which one
\* of the two variables is basic.  Either the basis was given by the user,
\* who left the bound of the nonbasic variable open (kNonbasic), and the
\* engine has no simplex basis; or it was set by setHotStartInterface, and the
\* engine holds the same basis and has not been initialised for a solve.
InitChangeSpec ==
  /\ InitSolve
  /\ InitHistory
  /\ InitPerturb
  /\ InitFactor
  /\ InitEdit
  /\ InitInf
  /\ InitOpt
  /\ InitCall
  /\ InitThreads
  /\ InitDual
  /\ InitBack
  /\ num_col_ = 1
  /\ num_row_ = 1
  /\ col_cost_ = <<Unit>>
  /\ \E cb \in EditBounds, rb \in EditBounds :
       /\ col_lower_ = <<cb[1]>>
       /\ col_upper_ = <<cb[2]>>
       /\ row_lower_ = <<rb[1]>>
       /\ row_upper_ = <<rb[2]>>
  /\ a_matrix_ = <<{<<0, Unit>>}>>
  /\ integrality_ = <<>>
  /\ user_bound_scale_ = 0
  /\ user_cost_scale_ = 0
  /\ basis_valid = TRUE
  /\ has_basis \in BOOLEAN
  /\ \E q \in 0..1 :
       LET flag == [k \in 1..2 |->
                      IF k - 1 = q THEN kNonbasicFlagFalse
                      ELSE kNonbasicFlagTrue]
           move == SetNonbasicMove(flag)
           status(iVar) ==
             IF iVar = q THEN "kBasic"
             ELSE IF ~has_basis THEN "kNonbasic"
             ELSE IF iVar < num_col_
             THEN HotStartCol(LpLower(iVar), LpUpper(iVar), At(move, iVar))[1]
             ELSE HotStartRow(At(row_lower_, 0), At(row_upper_, 0),
                              At(move, iVar))[1]
       IN /\ basicIndex_ = IF has_basis THEN <<q>> ELSE <<>>
          /\ nonbasicFlag_ = IF has_basis THEN flag ELSE <<>>
          /\ nonbasicMove_ = IF has_basis THEN move ELSE <<>>
          /\ col_status = <<status(0)>>
          /\ row_status = <<status(1)>>
  /\ model_status_ = "kNotset"
  /\ solution_valid = FALSE
  /\ info_valid = FALSE
  /\ last_return = "kOk"
  /\ workLower_ = <<>>
  /\ workUpper_ = <<>>
  /\ workValue_ = <<>>
  /\ workDual_ = <<>>
  /\ bounds_perturbed = FALSE
  /\ initialised_for_solve = FALSE
  /\ nvm_pending = FALSE

NextChangeStep ==
  \/ \E index_collection \in FirstIndex(num_col_), b \in EditBounds :
       ChangeColBoundsInterface(index_collection, FALSE, <<b[1]>>, <<b[2]>>)
  \/ \E index_collection \in FirstIndex(num_row_), b \in EditBounds :
       ChangeRowBoundsInterface(index_collection, FALSE, <<b[1]>>, <<b[2]>>)

\* the factorization is not followed here
NextChange == NextChangeStep /\ UNCHANGED <<perturbVars, factorVars, editVars, infVars, optVars,
              callVars, threadVars, has_fresh_rebuild, num_basic_logicals, dualVars,
                backVars>>

SpecChange == InitChangeSpec /\ [][NextChange]_vars

\* ------------------------------------------------ properties of SpecChange

\* the status of Highs and the simplex move of the nonbasic variable iVar
\* are consistent with its bounds, in the state after a step
ConsistentWithBounds(iVar) ==
  LET column == iVar < num_col_
      lower == IF column THEN At(col_lower_', iVar)
               ELSE At(row_lower_', iVar - num_col_)
      upper == IF column THEN At(col_upper_', iVar)
               ELSE At(row_upper_', iVar - num_col_)
      class == BoundsClass(lower, upper)
      status == IF column THEN At(col_status', iVar)
                ELSE At(row_status', iVar - num_col_)
      move_is(m) == has_basis => At(nonbasicMove_', iVar) = m
      at_lower == IF column THEN kNonbasicMoveUp ELSE kNonbasicMoveDn
      at_upper == IF column THEN kNonbasicMoveDn ELSE kNonbasicMoveUp
  IN /\ class = "fixed" => move_is(kNonbasicMoveZe)
     /\ class = "boxed" => \/ status = "kLower" /\ move_is(at_lower)
                           \/ status = "kUpper" /\ move_is(at_upper)
     /\ class = "lower" => status = "kLower"
     /\ class = "upper" => status = "kUpper"
     /\ class = "free" => status = "kZero" /\ move_is(kNonbasicMoveZe)

\* bounds, status and simplex entries of variable iVar are as before the step
VariableUnchanged(iVar) ==
  /\ IF iVar < num_col_
     THEN /\ At(col_lower_', iVar) = At(col_lower_, iVar)
          /\ At(col_upper_', iVar) = At(col_upper_, iVar)
          /\ At(col_status', iVar) = At(col_status, iVar)
     ELSE /\ At(row_lower_', iVar - num_col_) = At(row_lower_, iVar - num_col_)
          /\ At(row_upper_', iVar - num_col_) = At(row_upper_, iVar - num_col_)
          /\ At(row_status', iVar - num_col_) = At(row_status, iVar - num_col_)
  /\ has_basis => /\ At(nonbasicFlag_', iVar) = At(nonbasicFlag_, iVar)
                  /\ At(nonbasicMove_', iVar) = At(nonbasicMove_, iVar)

\* C16: after changeColBoundsInterface or changeRowBoundsInterface succeeds
\* with a valid basis, every nonbasic variable whose bounds were given has,
\* whatever its previous nonbasic status, a status and a simplex move
\* consistent with its new bounds (fixed -> move 0; boxed -> Lower or Upper
\* with the matching move; lower-only -> Lower; upper-only -> Upper; free ->
\* Zero with move 0); a basic variable keeps its status and its simplex
\* entries, and every other variable is unchanged.
C16_BoundsChangeSetsStatus ==
  [][(/\ lastOp' \in {"changeColBoundsInterface", "changeRowBoundsInterface"}
      /\ last_return' = "kOk"
      /\ basis_valid)
       => \A iVar \in Variables :
            LET changed ==
                  IF lastOp' = "changeColBoundsInterface"
                  THEN iVar < num_col_ ELSE iVar >= num_col_
                basic == HighsStatusOf(iVar) = "kBasic"
            IN /\ ~changed => VariableUnchanged(iVar)
               /\ (changed /\ basic)
                    => /\ At(col_status' \o row_status', iVar) = "kBasic"
                       /\ has_basis
                            => /\ At(nonbasicFlag_', iVar) = At(nonbasicFlag_, iVar)
                               /\ At(nonbasicMove_', iVar) = At(nonbasicMove_, iVar)
               /\ (changed /\ ~basic)
                    => \/ ConsistentWithBounds(iVar)
                       \/ VariableUnchanged(iVar)]_vars

\* -------------------------------------- specification of scalings with a basis

\* the scale values given to scaleColInterface / scaleRowInterface
ScaleValues == {-1, 1}

\* an LP of one column and one row with the valid basis of Highs and the
\* simplex basis that setHotStartInterface leaves: one of the two variables
\* is basic, and the engine has not been initialised for a solve
InitScaleSpec ==
  /\ InitSolve
  /\ InitHistory
  /\ InitPerturb
  /\ InitFactor
  /\ InitEdit
  /\ InitInf
  /\ InitOpt
  /\ InitCall
  /\ InitThreads
  /\ InitDual
  /\ InitBack
  /\ num_col_ = 1
  /\ num_row_ = 1
  /\ col_cost_ = <<Unit>>
  /\ \E cb \in EditBounds, rb \in EditBounds :
       /\ col_lower_ = <<cb[1]>>
       /\ col_upper_ = <<cb[2]>>
       /\ row_lower_ = <<rb[1]>>
       /\ row_upper_ = <<rb[2]>>
  /\ a_matrix_ = <<{<<0, Unit>>}>>
  /\ integrality_ = <<>>
  /\ user_bound_scale_ = 0
  /\ user_cost_scale_ = 0
  /\ basis_valid = TRUE
  /\ has_basis = TRUE
  /\ \E q \in 0..1 :
       /\ basicIndex_ = <<q>>
       /\ nonbasicFlag_ =
            [k \in 1..2 |->
               IF k - 1 = q THEN kNonbasicFlagFalse ELSE kNonbasicFlagTrue]
  /\ nonbasicMove_ = SetNonbasicMove(nonbasicFlag_)
  /\ col_status = <<StatusOfMove(0)>>
  /\ row_status = <<StatusOfMove(1)>>
  /\ model_status_ = "kNotset"
  /\ solution_valid = FALSE
  /\ info_valid = FALSE
  /\ last_return = "kOk"
  /\ workLower_ = <<>>
  /\ workUpper_ = <<>>
  /\ workValue_ = <<>>
  /\ workDual_ = <<>>
  /\ bounds_perturbed = FALSE
  /\ initialised_for_solve = FALSE
  /\ nvm_pending = FALSE

NextScaleStep ==
  \/ InitialiseWorkArrays
  \/ \E scale_value \in ScaleValues : ScaleColInterface(0, scale_value)
  \/ \E scale_value \in ScaleValues : ScaleRowInterface(0, scale_value)

\* the factorization is not followed here
NextScale == NextScaleStep /\ UNCHANGED <<perturbVars, factorVars, editVars, infVars, optVars,
              callVars, threadVars, has_fresh_rebuild, num_basic_logicals, dualVars,
                backVars>>

SpecScale == InitScaleSpec /\ [][NextScale]_vars

\* ------------------------------------------------- properties of SpecScale

\* the status of Highs and the simplex move of variable iVar denote the same
\* bound
SameBound(iVar) ==
  LET status == HighsStatusOf(iVar)
      move == At(nonbasicMove_, iVar)
      fixed == LpLower(iVar) = LpUpper(iVar)
      at_lower == IF iVar < num_col_ THEN kNonbasicMoveUp ELSE kNonbasicMoveDn
      at_upper == IF iVar < num_col_ THEN kNonbasicMoveDn ELSE kNonbasicMoveUp
  IN IF status = "kBasic" THEN At(nonbasicFlag_, iVar) = kNonbasicFlagFalse
     ELSE /\ At(nonbasicFlag_, iVar) = kNonbasicFlagTrue
          /\ status = "kLower" => (move = at_lower \/ (fixed /\ move = 0))
          /\ status = "kUpper" => (move = at_upper \/ (fixed /\ move = 0))
          /\ status = "kZero" => move = 0

\* C17: scaleColInterface and scaleRowInterface, called when the basis of
\* Highs is valid and the engine holds a simplex basis, flip the nonbasic
\* position of the variable in both bases when the scale value is negative
\* and change neither basis when it is positive, so that after any sequence
\* of scalings the status of Highs and the simplex move of every variable
\* still denote the same bound.
C17_ScalingKeepsBasesAligned ==
  [][(/\ lastOp' \in {"scaleColInterface", "scaleRowInterface"}
      /\ last_return' = "kOk"
      /\ basis_valid
      /\ has_basis
      /\ \A iVar \in Variables : SameBound(iVar))
       => \A iVar \in Variables : SameBound(iVar)']_vars

\* ------------------------------------- adding columns and deleting them again

\* the columns the last addColsInterface added
AddedCols == before_add.num_col_..(before_add.num_col_ + before_add.num_new_col - 1)

\* this step is deleteColsInterface of exactly the columns that the
\* operation before it, a successful addColsInterface on an LP with a valid
\* basis, has added
DeletesAddedCols ==
  /\ lastOp = "addColsInterface"
  /\ last_return = "kOk"
  /\ before_add.num_new_col > 0
  /\ before_add.basis_valid
  /\ \E index_collection \in DeleteCollections(num_col_) :
       /\ Indices(index_collection) = AddedCols
       /\ DeleteColsInterface(index_collection)

\* the matrix, the costs, the bounds and the dimensions after the step are
\* those before the add
LpRestored ==
  /\ num_col_' = before_add.num_col_
  /\ num_row_' = before_add.num_row_
  /\ col_cost_' = before_add.col_cost_
  /\ col_lower_' = before_add.col_lower_
  /\ col_upper_' = before_add.col_upper_
  /\ row_lower_' = before_add.row_lower_
  /\ row_upper_' = before_add.row_upper_
  /\ a_matrix_' = before_add.a_matrix_

\* the status of every original column and row after the step is the one
\* before the add
StatusesRestored ==
  /\ \A iCol \in 0..(before_add.num_col_ - 1) :
       At(col_status', iCol) = At(before_add.col_status, iCol)
  /\ \A iRow \in 0..(before_add.num_row_ - 1) :
       At(row_status', iRow) = At(before_add.row_status, iRow)

\* C18 (as stated): addColsInterface of k > 0 columns to an LP with a valid
\* basis followed by deleteColsInterface of exactly those columns restores
\* the matrix, the costs, the bounds and the dimensions, the validity flag of
\* the basis and the status of every original column and row
C18_AddThenDeleteRestoresBasis ==
  [][DeletesAddedCols =>
       /\ LpRestored
       /\ basis_valid' = before_add.basis_valid
       /\ StatusesRestored]_vars

\* C18 (amended): addColsInterface of k > 0 columns to an LP with a valid
\* basis followed by deleteColsInterface of exactly those columns restores
\* the matrix, the costs, the bounds and the dimensions and the status of
\* every original column and row, but the basis is not valid afterwards
C18_AddThenDeleteRestoresLp ==
  [][DeletesAddedCols =>
       /\ LpRestored
       /\ StatusesRestored
       /\ ~basis_valid']_vars

\* columns were added to an LP with a valid basis and deleted again: the LP
\* is the one before the add, the status vector still has the entries of the
\* added columns and the basis is not valid
C18_Witness ==
  /\ lastOp = "deleteColsInterface"
  /\ before_add.num_new_col > 0
  /\ before_add.basis_valid
  /\ num_col_ = before_add.num_col_
  /\ col_cost_ = before_add.col_cost_
  /\ a_matrix_ = before_add.a_matrix_
  /\ Len(col_status) = num_col_ + before_add.num_new_col
  /\ ~basis_valid

\* ------------------------------------------------------ deleting by mask

\* the indices a mask keeps
Retained(mask) == {i \in 0..(Len(mask) - 1) : At(mask, i) = 0}

\* the mask after the call has -1 for every deleted index; over the retained
\* indices in increasing order its values are 0, 1, ..., new_dim - 1, and
\* the number of retained indices is new_dim
MaskRewritten(mask, new_dim) ==
  /\ Len(mask_') = Len(mask)
  /\ \A i \in (0..(Len(mask) - 1)) \ Retained(mask) : At(mask_', i) = -1
  /\ \A i \in Retained(mask) :
       At(mask_', i) = Cardinality({h \in Retained(mask) : h < i})
  /\ {At(mask_', i) : i \in Retained(mask)} = 0..(new_dim - 1)
  /\ Cardinality(Retained(mask)) = new_dim

\* the mask value of a retained index is its new position: the entry of the
\* vector at that position is the old entry of the index
NewPositions(mask, old, new) ==
  \A i \in Retained(mask) : At(new, At(mask_', i)) = At(old, i)

\* the basis is invalidated exactly when an index was deleted
InvalidatedIfDeleted(mask) ==
  basis_valid' = (basis_valid /\ Retained(mask) = 0..(Len(mask) - 1))

\* C19: after deleteColsInterface (deleteRowsInterface) with a mask, the
\* mask has -1 for every deleted index and the new position for every
\* retained one, 0, 1, ..., num_col_ - 1 (num_row_ - 1) in increasing order,
\* as many as the new dimension, and the basis is invalidated exactly when at
\* least one index was deleted
C19_MaskMapsToNewPositions ==
  [][/\ \A c \in Masks(num_col_) :
          DeleteColsInterface(c) =>
            /\ MaskRewritten(c.mask_, num_col_')
            /\ NewPositions(c.mask_, col_cost_, col_cost_')
            /\ NewPositions(c.mask_, col_lower_, col_lower_')
            /\ NewPositions(c.mask_, col_upper_, col_upper_')
            /\ NewPositions(c.mask_, a_matrix_, a_matrix_')
            /\ InvalidatedIfDeleted(c.mask_)
     /\ \A c \in Masks(num_row_) :
          DeleteRowsInterface(c) =>
            /\ MaskRewritten(c.mask_, num_row_')
            /\ NewPositions(c.mask_, row_lower_, row_lower_')
            /\ NewPositions(c.mask_, row_upper_, row_upper_')
            /\ InvalidatedIfDeleted(c.mask_)]_vars

\* the first of two columns was deleted by mask: the mask maps it to -1 and
\* the second column to position 0, and the basis is not valid
C19_Witness ==
  /\ lastOp = "deleteColsInterface"
  /\ mask_ = <<-1, 0>>
  /\ num_col_ = 1
  /\ ~basis_valid

\* ------------------------------------------------ Highs: handleInfCost

\* options_.infinite_cost: a cost of this magnitude or more is infinite
infinite_cost == kHighsInf \div 10

\* std::floor and std::ceil of a number held in tenths; an infinite bound is
\* its own floor and ceiling
Floor(x) == x - (x % Unit)

Ceil(x) == -Floor(-x)

\* HighsLp::isMip: some column is integer
IsMip ==
  /\ integrality_ # <<>>
  /\ \E k \in DOMAIN integrality_ : integrality_[k] = "kInteger"

\* HighsLp::hasInfiniteCost
HasInfiniteCost(cost) ==
  \E k \in DOMAIN cost : cost[k] <= -infinite_cost \/ cost[k] >= infinite_cost

\* the bounds handleInfCost works with for column iCol: those of the LP,
\* rounded inwards for an integer column of a MIP
InfCostLower(lp, iCol) ==
  IF IsMip /\ At(integrality_, iCol) = "kInteger"
  THEN Ceil(At(lp.col_lower_, iCol))
  ELSE At(lp.col_lower_, iCol)

InfCostUpper(lp, iCol) ==
  IF IsMip /\ At(integrality_, iCol) = "kInteger"
  THEN Floor(At(lp.col_upper_, iCol))
  ELSE At(lp.col_upper_, iCol)

\* the column is to be fixed at its upper bound: minimizing with -inf cost or
\* maximizing with inf cost; otherwise at its lower bound
FixAtUpper(cost) == (cost <= -infinite_cost) = (sense_ = "kMinimize")

\* variant: every pass writes
Handling_Always(k) == TRUE

\* "if (k)": pass k writes to the LP and to the saved modifications
Handling(k) == k # 0

\* "Pass twice: first checking that infinite costs can be handled, then
\* handling them, so that model is unmodified if infinite costs cannot be
\* handled": the value of k in the first pass
FirstPass == 0

\* the body of the loop over the columns in pass k, from column iCol on, for
\* the LP and saved modifications lp; status is kError when the pass has
\* returned
RECURSIVE InfCostPass(_, _, _)
InfCostPass(k, iCol, lp) ==
  IF iCol >= num_col_ THEN lp
  ELSE
    LET cost == At(lp.col_cost_, iCol)
        lower == InfCostLower(lp, iCol)
        upper == InfCostUpper(lp, iCol)
        saved ==
          [index |-> iCol, cost |-> cost, lower |-> lower, upper |-> upper]
    IN IF cost > -infinite_cost /\ cost < infinite_cost
       THEN InfCostPass(k, iCol + 1, lp)
       ELSE IF FixAtUpper(cost)
       THEN IF upper < kHighsInf
            THEN InfCostPass(k, iCol + 1,
                   IF ~Handling(k) THEN lp
                   ELSE [lp EXCEPT !.col_lower_ = Put(@, iCol, upper),
                                   !.col_cost_ = Put(@, iCol, 0),
                                   !.mods_ = Append(@, saved)])
            ELSE [lp EXCEPT !.status = "kError"]
       ELSE IF lower > -kHighsInf
            THEN InfCostPass(k, iCol + 1,
                   IF ~Handling(k) THEN lp
                   ELSE [lp EXCEPT !.col_upper_ = Put(@, iCol, lower),
                                   !.col_cost_ = Put(@, iCol, 0),
                                   !.mods_ = Append(@, saved)])
            ELSE [lp EXCEPT !.status = "kError"]

\* the passes for k = from, ..., 1, each over the outcome of the one before,
\* until one returns Error
RECURSIVE InfCostPasses(_, _)
InfCostPasses(k, lp) ==
  LET pass == InfCostPass(k, 0, lp)
  IN IF pass.status = "kError" \/ k >= 1 THEN pass
     ELSE InfCostPasses(k + 1, pass)

\* HighsStatus Highs::handleInfCost()
HandleInfCost ==
  LET lp == [status |-> "kOk", col_cost_ |-> col_cost_,
             col_lower_ |-> col_lower_, col_upper_ |-> col_upper_,
             mods_ |-> mods_]
      handled == InfCostPasses(FirstPass, lp)
  IN /\ lastOp' = "handleInfCost"
     /\ IF ~has_infinite_cost_
        THEN /\ last_return' = "kOk"
             /\ UNCHANGED <<col_cost_, col_lower_, col_upper_, infVars>>
        ELSE /\ last_return' = handled.status
             /\ col_cost_' = handled.col_cost_
             /\ col_lower_' = handled.col_lower_
             /\ col_upper_' = handled.col_upper_
             /\ mods_' = handled.mods_
             /\ has_infinite_cost_' =
                  IF handled.status = "kError" THEN has_infinite_cost_
                  ELSE FALSE
             /\ UNCHANGED <<sense_, col_value, objective_function_value>>
     /\ UNCHANGED <<num_col_, num_row_, row_lower_, row_upper_, a_matrix_,
                    integrality_, user_bound_scale_, user_cost_scale_,
                    basis_valid, col_status, row_status, model_status_,
                    solution_valid, info_valid, basisVars, workVars,
                    solveVars, historyVars>>

\* setHighsModelStatusAndClearSolutionAndBasis(kUnknown) and
\* highsStatusFromHighsModelStatus: the status is kUnknown, the solution,
\* the info and the basis are cleared and the return status is Warning
SetUnknownAndClear ==
  /\ model_status_' = "kUnknown"
  /\ solution_valid' = FALSE
  /\ info_valid' = FALSE
  /\ basis_valid' = FALSE
  /\ col_status' = <<>>
  /\ col_value' = <<>>
  /\ last_return' = "kWarning"

\* the loop of restoreInfCost from entry ix of the saved modifications on,
\* over the costs, bounds and statuses of the columns and the objective
\* value in r
RECURSIVE RestoreInfCostLoop(_, _)
RestoreInfCostLoop(ix, r) ==
  IF ix > Len(mods_) THEN r
  ELSE
    LET iCol == mods_[ix].index
        cost == mods_[ix].cost
        lower == mods_[ix].lower
        upper == mods_[ix].upper
        value == IF solution_valid THEN At(col_value, iCol) ELSE 0
    IN RestoreInfCostLoop(ix + 1,
         [col_status |->
            IF basis_valid
            THEN Put(r.col_status, iCol,
                     IF At(r.col_lower_, iCol) = lower THEN "kLower"
                     ELSE "kUpper")
            ELSE r.col_status,
          objective_function_value |->
            r.objective_function_value + (value * cost) \div Unit,
          col_cost_ |-> Put(r.col_cost_, iCol, cost),
          col_lower_ |-> Put(r.col_lower_, iCol, lower),
          col_upper_ |-> Put(r.col_upper_, iCol, upper)])

\* void Highs::restoreInfCost(return_status)
RestoreInfCost ==
  LET r == RestoreInfCostLoop(1,
             [col_status |-> col_status,
              objective_function_value |-> objective_function_value,
              col_cost_ |-> col_cost_, col_lower_ |-> col_lower_,
              col_upper_ |-> col_upper_])
  IN /\ lastOp' = "restoreInfCost"
     /\ IF Len(mods_) <= 0
        THEN UNCHANGED <<col_cost_, col_lower_, col_upper_, col_status,
                         objective_function_value, has_infinite_cost_,
                         model_status_, solution_valid, info_valid,
                         basis_valid, col_value, last_return>>
        ELSE /\ col_cost_' = r.col_cost_
             /\ col_lower_' = r.col_lower_
             /\ col_upper_' = r.col_upper_
             /\ objective_function_value' = r.objective_function_value
             /\ has_infinite_cost_' = TRUE
             /\ IF model_status_ = "kInfeasible"
                THEN SetUnknownAndClear
                ELSE /\ col_status' = r.col_status
                     /\ UNCHANGED <<model_status_, solution_valid, info_valid,
                                    basis_valid, col_value, last_return>>
     /\ UNCHANGED <<num_col_, num_row_, row_lower_, row_upper_, a_matrix_,
                    integrality_, user_bound_scale_, user_cost_scale_,
                    row_status, sense_, mods_, basisVars, workVars,
                    solveVars, historyVars>>

\* ------------------------------------- specification of the infinite costs

\* number of columns of the LP
MaxInfCol == 2

\* the costs of a column: finite, or infinite with either sign
InfCosts == {Unit, -infinite_cost, infinite_cost, kHighsInf}

\* the bounds of a column: boxed with fractional bounds, with one infinite
\* bound, free
InfBounds ==
  {<<-(3 * Unit) \div 2, (3 * Unit) \div 2>>, <<0, kHighsInf>>,
   <<-kHighsInf, 0>>, <<-kHighsInf, kHighsInf>>}

\* the model status a run of Highs has left: none, an optimal solution with
\* its basis, or infeasibility
RunOutcomes == {"kNotset", "kOptimal", "kInfeasible"}

\* an LP or MIP without rows, as passed to Highs: the flag says whether a
\* cost is infinite
InitInfSpec ==
  /\ InitSolve
  /\ InitHistory
  /\ InitPerturb
  /\ InitFactor
  /\ InitEdit
  /\ InitOpt
  /\ InitCall
  /\ InitThreads
  /\ InitDual
  /\ InitBack
  /\ num_col_ = MaxInfCol
  /\ num_row_ = 0
  /\ col_cost_ \in [1..MaxInfCol -> InfCosts]
  /\ \E b \in [1..MaxInfCol -> InfBounds] :
       /\ col_lower_ = [k \in 1..MaxInfCol |-> b[k][1]]
       /\ col_upper_ = [k \in 1..MaxInfCol |-> b[k][2]]
  /\ row_lower_ = <<>>
  /\ row_upper_ = <<>>
  /\ a_matrix_ = [k \in 1..MaxInfCol |-> {}]
  /\ integrality_ \in
       {<<>>} \cup [1..MaxInfCol -> {"kContinuous", "kInteger"}]
  /\ user_bound_scale_ = 0
  /\ user_cost_scale_ = 0
  /\ has_infinite_cost_ = HasInfiniteCost(col_cost_)
  /\ sense_ \in {"kMinimize", "kMaximize"}
  /\ mods_ = <<>>
  /\ objective_function_value = 0
  /\ \E ran \in RunOutcomes :
       /\ model_status_ = ran
       /\ basis_valid = (ran = "kOptimal")
       /\ col_status =
            IF ran = "kOptimal" THEN [k \in 1..MaxInfCol |-> "kLower"]
            ELSE <<>>
       /\ solution_valid = (ran = "kOptimal")
       /\ col_value =
            IF ran = "kOptimal" THEN [k \in 1..MaxInfCol |-> Unit] ELSE <<>>
       /\ info_valid = (ran = "kOptimal")
  /\ row_status = <<>>
  /\ last_return = "kOk"
  /\ has_basis = FALSE
  /\ basicIndex_ = <<>>
  /\ nonbasicFlag_ = <<>>
  /\ nonbasicMove_ = <<>>
  /\ workLower_ = <<>>
  /\ workUpper_ = <<>>
  /\ workValue_ = <<>>
  /\ workDual_ = <<>>
  /\ bounds_perturbed = FALSE
  /\ initialised_for_solve = FALSE
  /\ nvm_pending = FALSE

\* the costs and bounds of the columns and the flag, as handleInfCost finds
\* them
BeforeHandle ==
  [handled |-> TRUE, col_cost_ |-> col_cost_, col_lower_ |-> col_lower_,
   col_upper_ |-> col_upper_, has_infinite_cost_ |-> has_infinite_cost_]

\* handleInfCost is called with no modification saved, as Highs::run calls
\* it before a solve, and restoreInfCost after it
NextInfStep ==
  \/ /\ mods_ = <<>>
     /\ HandleInfCost
     /\ before_handle' = BeforeHandle
  \/ /\ lastOp = "handleInfCost"
     /\ last_return = "kOk"
     /\ RestoreInfCost
     /\ UNCHANGED before_handle

\* the factorization, the masks and the added columns are not followed here
NextInf == NextInfStep /\ UNCHANGED <<perturbVars, factorVars, mask_, before_add, optVars, callVars,
              threadVars, has_fresh_rebuild, num_basic_logicals, dualVars,
                backVars>>

SpecInf == InitInfSpec /\ [][NextInf]_vars

\* ------------------------------------------------- properties of SpecInf

\* this step is a handleInfCost that returns Error
InfCostError == lastOp' = "handleInfCost" /\ last_return' = "kError"

\* C20: when handleInfCost returns Error, no cost, lower bound or upper bound
\* of a column has changed, nothing was appended to the saved modifications
\* and has_infinite_cost_ is unchanged
C20_ErrorLeavesModelUnmodified ==
  [][InfCostError =>
       UNCHANGED <<col_cost_, col_lower_, col_upper_, mods_,
                   has_infinite_cost_>>]_vars

\* handleInfCost has returned Error for an LP whose first column has an
\* infinite cost that can be handled and whose last column has one that
\* cannot
C20_Witness ==
  /\ lastOp = "handleInfCost"
  /\ last_return = "kError"
  /\ Abs(At(col_cost_, 0)) >= infinite_cost
  /\ IF FixAtUpper(At(col_cost_, 0))
     THEN At(col_upper_, 0) < kHighsInf
     ELSE At(col_lower_, 0) > -kHighsInf
  /\ Abs(At(col_cost_, num_col_ - 1)) >= infinite_cost
  /\ IF FixAtUpper(At(col_cost_, num_col_ - 1))
     THEN At(col_upper_, num_col_ - 1) >= kHighsInf
     ELSE At(col_lower_, num_col_ - 1) <= -kHighsInf

\* ------------------------------------ handleInfCost and restoreInfCost

\* the columns whose cost was infinite before the last handleInfCost
InfCostCols ==
  {iCol \in 0..(num_col_ - 1) :
     Abs(At(before_handle.col_cost_, iCol)) >= infinite_cost}

\* handleInfCost has returned Ok and restoreInfCost has not run since
HandledOk == lastOp = "handleInfCost" /\ last_return = "kOk"

\* every column whose cost was infinite has cost 0 and is fixed at the bound
\* handleInfCost works with: the upper one for -inf cost when minimizing or
\* inf cost when maximizing, else the lower one
InfCostColsFixed ==
  \A iCol \in InfCostCols :
    /\ At(col_cost_, iCol) = 0
    /\ At(col_lower_, iCol) = At(col_upper_, iCol)
    /\ At(col_lower_, iCol) =
         IF FixAtUpper(At(before_handle.col_cost_, iCol))
         THEN InfCostUpper(before_handle, iCol)
         ELSE InfCostLower(before_handle, iCol)

\* the costs, the bounds and the flag after the step are those before
\* handleInfCost
InfCostRestored ==
  /\ col_cost_' = before_handle.col_cost_
  /\ col_lower_' = before_handle.col_lower_
  /\ col_upper_' = before_handle.col_upper_
  /\ has_infinite_cost_' = before_handle.has_infinite_cost_

\* C21: when handleInfCost returns Ok, every infinite-cost column has cost 0
\* and is fixed at the relevant bound until restoreInfCost, and
\* restoreInfCost after it restores the costs and bounds of every column and
\* has_infinite_cost_ to their values before handleInfCost, integer columns
\* with fractional bounds included
C21_HandleThenRestoreRoundTrip ==
  [][/\ HandledOk' => InfCostColsFixed'
     /\ (HandledOk /\ lastOp' = "restoreInfCost") => InfCostRestored]_vars

\* -------------------------------------------- Highs: optionChangeAction

\* kHighsIllegalInfeasibilityCount
kHighsIllegalInfeasibilityCount == -1

\* a value times 2^dl, std::pow(2, dl), for an exponent of either sign; an
\* infinite value stays infinite
ScaledBy(x, dl) ==
  IF Abs(x) >= kHighsInf THEN x
  ELSE IF dl >= 0 THEN x * Pow2(dl) ELSE x \div Pow2(-dl)

\* HighsLp::userBoundScaleOk: no finite bound of a column or row becomes
\* infinite with the new exponent
UserBoundScaleOk(user_bound_scale) ==
  LET dl == user_bound_scale - user_bound_scale_
      Ok(bounds) ==
        \A k \in DOMAIN bounds :
          Abs(bounds[k]) < kHighsInf => Abs(ScaledBy(bounds[k], dl)) < kHighsInf
  IN \/ dl = 0
     \/ Ok(col_lower_) /\ Ok(col_upper_) /\ Ok(row_lower_) /\ Ok(row_upper_)

\* HighsModel::userCostScaleOk: no finite cost becomes infinite with the new
\* exponent
UserCostScaleOk(user_cost_scale) ==
  LET dl == user_cost_scale - user_cost_scale_
  IN \/ dl = 0
     \/ \A k \in DOMAIN col_cost_ :
          Abs(col_cost_[k]) < infinite_cost =>
            Abs(ScaledBy(col_cost_[k], dl)) < infinite_cost

\* every entry of a vector times 2^dl
ScaledVector(v, dl) == [k \in DOMAIN v |-> ScaledBy(v[k], dl)]

\* user_bound_scale_ok: the exponent is unchanged or it yields no infinite
\* bound
UserBoundScaleChecked(requested) ==
  \/ requested.user_bound_scale = user_bound_scale_
  \/ UserBoundScaleOk(requested.user_bound_scale)

\* user_cost_scale_ok
UserCostScaleChecked(requested) ==
  \/ requested.user_cost_scale = user_cost_scale_
  \/ UserCostScaleOk(requested.user_cost_scale)

\* HighsStatus Highs::optionChangeAction(), called with the options the
\* user has set in requested
OptionChangeAction(requested) ==
  LET is_mip == IsMip
      user_bound_scale_ok == UserBoundScaleChecked(requested)
      dl_user_bound_scale ==
        IF user_bound_scale_ok
        THEN requested.user_bound_scale - user_bound_scale_ ELSE 0
      new_max_primal_infeasibility ==
        ScaledBy(info_.max_primal_infeasibility, dl_user_bound_scale)
      not_primal_feasible ==
        new_max_primal_infeasibility > requested.primal_feasibility_tolerance
      \* the info after the part on primal feasibility
      info1 ==
        IF not_primal_feasible
        THEN [info_ EXCEPT
                !.primal_solution_status = "kSolutionStatusInfeasible",
                !.num_primal_infeasibilities = kHighsIllegalInfeasibilityCount]
        ELSE IF ~is_mip
                /\ info_.primal_solution_status = "kSolutionStatusInfeasible"
        THEN [info_ EXCEPT
                !.primal_solution_status = "kSolutionStatusFeasible",
                !.num_primal_infeasibilities = 0]
        ELSE info_
      \* "MIP with negative bound scaling exponent loses feasibility"
      info2 ==
        IF is_mip /\ dl_user_bound_scale < 0
        THEN [info1 EXCEPT
                !.primal_solution_status = "kSolutionStatusInfeasible"]
        ELSE info1
      \* "Update info and solution with respect to non-trivial user bound
      \* scaling"
      info3 ==
        [info2 EXCEPT
           !.max_primal_infeasibility = ScaledBy(@, dl_user_bound_scale),
           !.sum_primal_infeasibilities = ScaledBy(@, dl_user_bound_scale)]
      objective1 == ScaledBy(objective_function_value, dl_user_bound_scale)
      user_cost_scale_ok == UserCostScaleChecked(requested)
      dl_user_cost_scale ==
        IF user_cost_scale_ok
        THEN requested.user_cost_scale - user_cost_scale_ ELSE 0
      new_max_dual_infeasibility ==
        ScaledBy(info3.max_dual_infeasibility, dl_user_cost_scale)
      not_dual_feasible ==
        new_max_dual_infeasibility > requested.dual_feasibility_tolerance
      \* the info after the part on dual feasibility
      info4 ==
        IF is_mip THEN info3
        ELSE IF not_dual_feasible
        THEN [info3 EXCEPT
                !.dual_solution_status =
                  IF @ = "kSolutionStatusFeasible"
                  THEN "kSolutionStatusInfeasible" ELSE @,
                !.num_dual_infeasibilities = kHighsIllegalInfeasibilityCount]
        ELSE IF info3.dual_solution_status = "kSolutionStatusInfeasible"
        THEN [info3 EXCEPT
                !.dual_solution_status = "kSolutionStatusFeasible",
                !.num_dual_infeasibilities = 0]
        ELSE info3
      info5 ==
        [info4 EXCEPT
           !.max_dual_infeasibility = ScaledBy(@, dl_user_cost_scale),
           !.sum_dual_infeasibilities = ScaledBy(@, dl_user_cost_scale)]
      \* the model status before "gain of optimality"
      status1 ==
        IF \/ not_primal_feasible
           \/ is_mip /\ dl_user_bound_scale # 0
           \/ ~is_mip /\ not_dual_feasible
           \/ is_mip /\ dl_user_cost_scale # 0
        THEN "kNotset" ELSE model_status_
  IN /\ lastOp' = "optionChangeAction"
     /\ options_' =
          [requested EXCEPT
             !.user_bound_scale =
               IF user_bound_scale_ok THEN @ ELSE user_bound_scale_,
             !.user_cost_scale =
               IF user_cost_scale_ok THEN @ ELSE user_cost_scale_]
     /\ info_' = info5
     /\ objective_function_value' = ScaledBy(objective1, dl_user_cost_scale)
     /\ col_value' = ScaledVector(col_value, dl_user_bound_scale)
     /\ solution_' =
          [solution_ EXCEPT
             !.row_value = ScaledVector(@, dl_user_bound_scale),
             !.col_dual = ScaledVector(@, dl_user_cost_scale),
             !.row_dual = ScaledVector(@, dl_user_cost_scale)]
     \* lp.userBoundScale and model.userCostScale
     /\ col_lower_' = ScaledVector(col_lower_, dl_user_bound_scale)
     /\ col_upper_' = ScaledVector(col_upper_, dl_user_bound_scale)
     /\ row_lower_' = ScaledVector(row_lower_, dl_user_bound_scale)
     /\ row_upper_' = ScaledVector(row_upper_, dl_user_bound_scale)
     /\ user_bound_scale_' = user_bound_scale_ + dl_user_bound_scale
     /\ col_cost_' = ScaledVector(col_cost_, dl_user_cost_scale)
     /\ user_cost_scale_' = user_cost_scale_ + dl_user_cost_scale
     /\ model_status_' =
          IF /\ status1 # "kOptimal"
             /\ info5.primal_solution_status = "kSolutionStatusFeasible"
             /\ info5.dual_solution_status = "kSolutionStatusFeasible"
          THEN "kOptimal" ELSE status1
     /\ last_return' =
          IF ~user_bound_scale_ok \/ ~user_cost_scale_ok THEN "kError"
          ELSE "kOk"
     /\ UNCHANGED <<num_col_, num_row_, a_matrix_, integrality_, basis_valid,
                    col_status, row_status, solution_valid, info_valid,
                    basisVars, workVars, solveVars, historyVars,
                    has_infinite_cost_, sense_, mods_>>

\* --------------------------------------- specification of the options

\* the default feasibility tolerance and a looser one
Tolerances == {1, 5}

\* the exponents of the user scaling the options are set to
ScaleExponents == {-1, 0, 1}

\* the options optionChangeAction is called with
RequestedOptions ==
  [user_bound_scale : ScaleExponents, user_cost_scale : ScaleExponents,
   primal_feasibility_tolerance : Tolerances,
   dual_feasibility_tolerance : Tolerances]

\* the bounds of the column: small, or such that doubling makes them infinite
OptBounds == {<<-4 * Unit, 4 * Unit>>, <<-HugeValue, HugeValue>>}

\* the cost of the column: small, or such that doubling makes it infinite
OptCosts == {4 * Unit, infinite_cost \div 2}

\* the largest infeasibilities a run has left: none, or above the default
\* tolerance
Infeasibilities == {0, 4}

\* the solution status of a largest infeasibility under the default tolerance
SolutionStatus(max_infeasibility) ==
  IF max_infeasibility > 1 THEN "kSolutionStatusInfeasible"
  ELSE "kSolutionStatusFeasible"

\* an LP or MIP of one column and one row without user scaling, with the
\* solution and info a run under the default options has left
InitOptSpec ==
  /\ InitSolve
  /\ InitHistory
  /\ InitPerturb
  /\ InitFactor
  /\ InitEdit
  /\ InitCall
  /\ InitThreads
  /\ InitDual
  /\ InitBack
  /\ num_col_ = 1
  /\ num_row_ = 1
  /\ col_cost_ \in {<<c>> : c \in OptCosts}
  /\ \E b \in OptBounds : col_lower_ = <<b[1]>> /\ col_upper_ = <<b[2]>>
  /\ row_lower_ = <<-4 * Unit>>
  /\ row_upper_ = <<4 * Unit>>
  /\ a_matrix_ = <<{<<0, Unit>>}>>
  /\ integrality_ \in {<<>>, <<"kInteger">>}
  /\ user_bound_scale_ = 0
  /\ user_cost_scale_ = 0
  /\ has_infinite_cost_ = FALSE
  /\ sense_ = "kMinimize"
  /\ mods_ = <<>>
  /\ options_ =
       [user_bound_scale |-> 0, user_cost_scale |-> 0,
        primal_feasibility_tolerance |-> 1, dual_feasibility_tolerance |-> 1]
  /\ \E p \in Infeasibilities, d \in Infeasibilities :
       /\ info_ =
            [max_primal_infeasibility |-> p, sum_primal_infeasibilities |-> p,
             primal_solution_status |-> SolutionStatus(p),
             num_primal_infeasibilities |-> IF p > 1 THEN 1 ELSE 0,
             max_dual_infeasibility |-> d, sum_dual_infeasibilities |-> d,
             dual_solution_status |-> SolutionStatus(d),
             num_dual_infeasibilities |-> IF d > 1 THEN 1 ELSE 0]
       /\ model_status_ = IF p > 1 \/ d > 1 THEN "kNotset" ELSE "kOptimal"
  /\ objective_function_value = 16 * Unit
  /\ col_value = <<4 * Unit>>
  /\ solution_ =
       [row_value |-> <<4 * Unit>>, col_dual |-> <<4 * Unit>>,
        row_dual |-> <<0>>]
  /\ solution_valid = TRUE
  /\ info_valid = TRUE
  /\ basis_valid = FALSE
  /\ col_status = <<>>
  /\ row_status = <<>>
  /\ last_return = "kOk"
  /\ has_basis = FALSE
  /\ basicIndex_ = <<>>
  /\ nonbasicFlag_ = <<>>
  /\ nonbasicMove_ = <<>>
  /\ workLower_ = <<>>
  /\ workUpper_ = <<>>
  /\ workValue_ = <<>>
  /\ workDual_ = <<>>
  /\ bounds_perturbed = FALSE
  /\ initialised_for_solve = FALSE
  /\ nvm_pending = FALSE

NextOptStep == \E requested \in RequestedOptions : OptionChangeAction(requested)

\* the factorization, the masks and the added columns are not followed here
NextOpt ==
  NextOptStep /\
    UNCHANGED <<perturbVars, factorVars, editVars, callVars, threadVars,
                has_fresh_rebuild, num_basic_logicals, dualVars,
                backVars>>

SpecOpt == InitOptSpec /\ [][NextOpt]_vars

\* ------------------------------------------------- properties of SpecOpt

\* this step is an optionChangeAction
OptionChange == lastOp' = "optionChangeAction"

\* C22: after optionChangeAction the two options equal the exponents of the
\* LP; when it returns Error (a requested exponent would yield an infinite
\* bound or cost and was reverted) the bounds and costs of the LP, the
\* solution values and the info values are left unchanged
C22_ErrorLeavesScalingUnchanged ==
  [][OptionChange =>
       /\ options_'.user_bound_scale = user_bound_scale_'
       /\ options_'.user_cost_scale = user_cost_scale_'
       /\ last_return' = "kError" =>
            UNCHANGED <<col_cost_, col_lower_, col_upper_, row_lower_,
                        row_upper_, col_value, solution_, info_,
                        objective_function_value>>]_vars

\* ------------------------------------------- Highs: basisSolveInterface

\* the rows in which a vector is not zero
Nonzeros(array) == {iRow \in 0..(Len(array) - 1) : At(array, iRow) # 0}

\* the first count entries of a vector are the first count entries of index,
\* the others are as in old
IndicesWritten(old, index, count) ==
  [k \in DOMAIN old |-> IF k <= count THEN index[k] ELSE old[k]]

\* "Solution nonzeros are known": the caller's array is zeroed and gets the
\* entries of the rows in solve_vector.index[0 .. count)
KnownSolution(solved) ==
  [k \in 1..num_row_ |->
     IF \E iX \in 1..solved.count : solved.index[iX] = k - 1
     THEN solved.array[k] ELSE 0]

\* "Solution nonzeros not known" with the indices required: the loop over
\* the rows up to its first nonzero, where "solution_num_nz = 0" has made
\* the pointer null and "*solution_num_nz++" reads through it; the caller's
\* array is written up to that row
UnknownSolutionPrefix(solved, old) ==
  LET first == CHOOSE iRow \in Nonzeros(solved.array) :
                 \A other \in Nonzeros(solved.array) : iRow <= other
  IN [k \in 1..num_row_ |->
        IF k - 1 <= first THEN solved.array[k] ELSE old[k]]

\* HighsStatus Highs::basisSolveInterface(rhs, solution_vector,
\* solution_num_nz, solution_indices, transpose).  ekk_instance_.ftran and
\* btran are not in these sources: solved is the vector they leave for rhs.
\* indices_required says that solution_indices is not NULL.
BasisSolveInterface(rhs, indices_required, transpose, solved) ==
  /\ lastOp' = "basisSolveInterface"
  /\ last_return' = "kOk"
  /\ IF num_row_ = 0
     THEN UNCHANGED callVars
     ELSE
       /\ has_invert
       /\ solve_vector' = solved
       /\ IF ~indices_required
          THEN /\ solution_vector' =
                    IF solved.count > num_row_ THEN solved.array
                    ELSE KnownSolution(solved)
               /\ null_dereferenced' = FALSE
               /\ UNCHANGED <<solution_num_nz, solution_indices>>
          ELSE IF solved.count > num_row_
          THEN IF Nonzeros(solved.array) = {}
               \* no row reads through the pointer
               THEN /\ solution_vector' = solved.array
                    /\ null_dereferenced' = FALSE
                    /\ UNCHANGED <<solution_num_nz, solution_indices>>
               \* undefined behaviour: the call may stop there, or go on
               \* with whatever the read gave as index
               ELSE /\ null_dereferenced' = TRUE
                    /\ solution_vector' \in
                         {UnknownSolutionPrefix(solved, solution_vector),
                          solved.array}
                    /\ solution_indices' \in
                         {solution_indices,
                          IndicesWritten(solution_indices,
                                         Sorted(Nonzeros(solved.array)),
                                         Cardinality(Nonzeros(solved.array)))}
                    /\ UNCHANGED solution_num_nz
          ELSE /\ solution_vector' = KnownSolution(solved)
               /\ solution_indices' =
                    IndicesWritten(solution_indices, solved.index,
                                   solved.count)
               /\ solution_num_nz' = solved.count
               /\ null_dereferenced' = FALSE
  /\ UNCHANGED <<lpVars, basis_valid, col_status, row_status, model_status_,
                 solution_valid, info_valid, basisVars, workVars, solveVars,
                 historyVars>>

\* ------------------------------- specification of the solves with the basis

\* the largest number of rows of the LP
MaxSolveRow == 2

\* a value the caller's arrays hold before the call
Stale == -(7 * Unit)

\* the entries of a right-hand side and of a solved vector
SolveValues == {0, Unit}

\* the vectors ftran / btran may leave for an LP of num_row_ rows: any
\* array, with its nonzeros counted and listed in some order, or with a
\* count beyond num_row_ that says they are not known
SolvedVectors ==
  {[array |-> a, index |-> ix, count |-> c] :
     a \in [1..num_row_ -> SolveValues],
     ix \in [1..num_row_ -> 0..(num_row_ - 1)],
     c \in 0..(num_row_ + 1)} 

\* the index of a solved vector lists its nonzeros, each once
Consistent(solved) ==
  \/ /\ solved.count > num_row_
     /\ solved.index = [k \in 1..num_row_ |-> 0]
  \/ /\ solved.count = Cardinality(Nonzeros(solved.array))
     /\ {solved.index[k] : k \in 1..solved.count} = Nonzeros(solved.array)
     /\ \A k \in (solved.count + 1)..num_row_ : solved.index[k] = 0

\* an LP of one column and up to MaxSolveRow rows whose engine holds the
\* logical basis with its INVERT; the caller's arrays hold stale values
InitCallSpec ==
  /\ InitSolve
  /\ InitHistory
  /\ InitPerturb
  /\ InitEdit
  /\ InitInf
  /\ InitOpt
  /\ InitThreads
  /\ InitDual
  /\ InitBack
  /\ num_col_ = 1
  /\ num_row_ \in 0..MaxSolveRow
  /\ col_cost_ = <<Unit>>
  /\ col_lower_ = <<0>>
  /\ col_upper_ = <<Unit>>
  /\ row_lower_ = [k \in 1..num_row_ |-> 0]
  /\ row_upper_ = [k \in 1..num_row_ |-> Unit]
  /\ a_matrix_ = <<{<<iRow, Unit>> : iRow \in 0..(num_row_ - 1)}>>
  /\ integrality_ = <<>>
  /\ user_bound_scale_ = 0
  /\ user_cost_scale_ = 0
  /\ basis_valid = TRUE
  /\ col_status = <<"kLower">>
  /\ row_status = [k \in 1..num_row_ |-> "kBasic"]
  /\ model_status_ = "kNotset"
  /\ solution_valid = FALSE
  /\ info_valid = FALSE
  /\ last_return = "kOk"
  /\ has_basis = TRUE
  /\ basicIndex_ = [k \in 1..num_row_ |-> num_col_ + k - 1]
  /\ nonbasicFlag_ =
       [k \in 1..(1 + num_row_) |->
          IF k = 1 THEN kNonbasicFlagTrue ELSE kNonbasicFlagFalse]
  /\ nonbasicMove_ = [k \in 1..(1 + num_row_) |-> IF k = 1 THEN 1 ELSE 0]
  /\ workLower_ = <<>>
  /\ workUpper_ = <<>>
  /\ workValue_ = <<>>
  /\ workDual_ = <<>>
  /\ bounds_perturbed = FALSE
  /\ initialised_for_solve = FALSE
  /\ nvm_pending = FALSE
  /\ has_invert = TRUE
  /\ has_fresh_invert = TRUE
  /\ has_fresh_rebuild = FALSE
  /\ num_basic_logicals = num_row_
  /\ has_matrix = TRUE
  /\ update_count = 0
  /\ rank_deficiency = 0
  /\ noPvR = <<>>
  /\ noPvC = <<>>
  /\ initialise_return = 0
  /\ basic_variables = <<>>
  /\ computeFactor_calls = 0
  /\ solve_vector = [array |-> <<>>, index |-> <<>>, count |-> 0]
  /\ solution_vector = [k \in 1..num_row_ |-> Stale]
  /\ solution_num_nz = Stale
  /\ solution_indices = [k \in 1..num_row_ |-> Stale]
  /\ null_dereferenced = FALSE

NextCallStep ==
  \E rhs \in [1..num_row_ -> SolveValues], indices_required \in BOOLEAN,
     transpose \in BOOLEAN, solved \in {v \in SolvedVectors : Consistent(v)} :
    BasisSolveInterface(rhs, indices_required, transpose, solved)

\* the additions, the infinite costs and the options are not followed here
NextCall ==
  NextCallStep /\
    UNCHANGED <<perturbVars, factorVars, editVars, infVars, optVars, threadVars,
                has_fresh_rebuild, num_basic_logicals, dualVars,
                backVars>>

SpecCall == InitCallSpec /\ [][NextCall]_vars

\* ------------------------------------------------- properties of SpecCall

\* C23: basisSolveInterface with the indices required returns Ok without
\* dereferencing a null pointer, with the solved vector in solution_vector,
\* the number of reported nonzeros in *solution_num_nz and their rows in
\* solution_indices[0 .. *solution_num_nz), whether the count of the solved
\* vector is known (count <= num_row) or not; with no rows it returns Ok and
\* writes nothing
C23_BasisSolveReportsNonzeros ==
  [][\A rhs \in [1..num_row_ -> SolveValues], transpose \in BOOLEAN,
        solved \in {v \in SolvedVectors : Consistent(v)} :
       BasisSolveInterface(rhs, TRUE, transpose, solved) =>
         /\ last_return' = "kOk"
         /\ ~null_dereferenced'
         /\ (num_row_ = 0) => UNCHANGED callVars
         /\ (num_row_ > 0) =>
              /\ solution_vector' = solved.array
              /\ solution_num_nz' = Cardinality(Nonzeros(solved.array))
              /\ {solution_indices'[k] : k \in 1..solution_num_nz'} =
                   Nonzeros(solved.array)]_vars

\* ------------------------------------ HEkk::chooseSimplexStrategyThreads

\* SimplexConst.h: the fewest threads of the parallel variants of dual
kDualTasksMinThreads == 3
kDualMultiMinThreads == 1

kHighsOnString == "on"

Max(a, b) == IF a >= b THEN a ELSE b

\* variant: DualMulti whatever the number of OpenMP threads
StrategyWithThreads_AnyThreads(option, parallel, omp_max_threads, np) ==
  IF /\ parallel = kHighsOnString
     /\ ChooseSimplexStrategy(option, np) = "kSimplexStrategyDual"
  THEN "kSimplexStrategyDualMulti"
  ELSE ChooseSimplexStrategy(option, np)

\* the strategy chooseSimplexStrategyThreads leaves in simplex_info
StrategyWithThreads(option, parallel, omp_max_threads, np) ==
  IF /\ parallel = kHighsOnString
     /\ ChooseSimplexStrategy(option, np) = "kSimplexStrategyDual"
     /\ omp_max_threads >= kDualMultiMinThreads
  THEN "kSimplexStrategyDualMulti"
  ELSE ChooseSimplexStrategy(option, np)

\* void HEkk::chooseSimplexStrategyThreads(options, simplex_info).  openmp:
\* the build defines OPENMP, and omp_get_max_threads() then gives
\* omp_threads; without it omp_max_threads is 0 and the thread counts stay
\* those of the serial code.
ChooseSimplexStrategyThreads(option, parallel, openmp, omp_threads, highs_min_threads, highs_max_threads) ==
  LET omp_max_threads == IF openmp THEN omp_threads ELSE 0
      strategy == StrategyWithThreads(option, parallel, omp_max_threads,
                                      num_primal_infeasibility)
      minimum ==
        IF openmp /\ strategy = "kSimplexStrategyDualTasks"
        THEN Max(kDualTasksMinThreads, highs_min_threads)
        ELSE IF openmp /\ strategy = "kSimplexStrategyDualMulti"
        THEN Max(kDualMultiMinThreads, highs_min_threads)
        ELSE 1
      maximum ==
        IF openmp /\ strategy \in {"kSimplexStrategyDualTasks",
                                   "kSimplexStrategyDualMulti"}
        THEN Max(minimum, highs_max_threads)
        ELSE 1
  IN /\ num_dual_infeasibility > 0 \/ num_primal_infeasibility > 0
     /\ simplex_strategy' = strategy
     /\ min_threads' = minimum
     /\ max_threads' = maximum
     /\ num_threads' = maximum
     /\ thread_options' =
          [simplex_strategy |-> option, parallel |-> parallel,
           highs_min_threads |-> highs_min_threads,
           highs_max_threads |-> highs_max_threads,
           omp_max_threads |-> omp_max_threads]
     /\ lastOp' = "chooseSimplexStrategyThreads"
     /\ UNCHANGED <<pc, stage, driver, scaled_model_status_, solve_bailout_,
                    called_return_from_solve_, valid_backtracking_basis_,
                    num_primal_infeasibility, num_dual_infeasibility,
                    dual_edge_weight_strategy,
                    dual_simplex_cost_perturbation_multiplier,
                    primal_simplex_bound_perturbation_multiplier,
                    iteration_count_, return_status, solve_return,
                    choose_calls, rfs_calls, runs, assertion_failed>>

\* --------------------------- specification of the choice of the strategy

\* the most threads OpenMP offers and the options ask for
MaxThreads == 3

AllStrategyOptions ==
  StrategyOptions \cup {"kSimplexStrategyDualTasks",
                        "kSimplexStrategyDualMulti"}

ParallelOptions == {"off", "choose", kHighsOnString}

\* a basis that is not optimal: chooseSimplexStrategyThreads is called by
\* solve only after initialiseForSolve has found an infeasibility
InitThreadsSpec ==
  /\ InitHistory
  /\ InitPerturb
  /\ InitModel
  /\ InitFactor
  /\ InitEdit
  /\ InitInf
  /\ InitOpt
  /\ InitCall
  /\ InitThreads
  /\ InitDual
  /\ InitBack
  /\ pc = "idle"
  /\ stage = "none"
  /\ driver = "none"
  /\ scaled_model_status_ = "kNotset"
  /\ solve_bailout_ = FALSE
  /\ called_return_from_solve_ = FALSE
  /\ valid_backtracking_basis_ = FALSE
  /\ num_primal_infeasibility \in 0..MaxInfeas
  /\ num_dual_infeasibility \in 0..MaxInfeas
  /\ num_primal_infeasibility + num_dual_infeasibility > 0
  /\ simplex_strategy = "kSimplexStrategyChoose"
  /\ dual_edge_weight_strategy = "kSimplexDualEdgeWeightStrategyDantzig"
  /\ dual_simplex_cost_perturbation_multiplier =
       options_dual_simplex_cost_perturbation_multiplier
  /\ primal_simplex_bound_perturbation_multiplier =
       options_primal_simplex_bound_perturbation_multiplier
  /\ iteration_count_ = 0
  /\ return_status = "kOk"

NextThreadsStep ==
  \E option \in AllStrategyOptions, parallel \in ParallelOptions,
     openmp \in BOOLEAN, omp_threads \in 1..MaxThreads,
     highs_min_threads \in 1..MaxThreads,
     highs_max_threads \in 1..MaxThreads :
    /\ highs_min_threads <= highs_max_threads
    /\ ChooseSimplexStrategyThreads(option, parallel, openmp, omp_threads,
                                    highs_min_threads, highs_max_threads)

NextThreads ==
  NextThreadsStep /\
    UNCHANGED <<perturbVars, modelVars, factorVars, editVars, infVars, optVars, callVars,
                has_fresh_rebuild, num_basic_logicals, dualVars,
                backVars>>

SpecThreads == InitThreadsSpec /\ [][NextThreads]_vars

\* ---------------------------------------------- properties of SpecThreads

\* the fewest threads of a parallel variant of dual
MinThreadsOf(strategy) ==
  IF strategy = "kSimplexStrategyDualTasks" THEN kDualTasksMinThreads
  ELSE kDualMultiMinThreads

ParallelStrategies ==
  {"kSimplexStrategyDualTasks", "kSimplexStrategyDualMulti"}

\* chooseSimplexStrategyThreads has been the last operation
Chosen == lastOp = "chooseSimplexStrategyThreads"

\* under 'choose' primal is the strategy exactly when the basis is primal
\* feasible; a strategy that is not parallel is serial dual or primal
SerialChoice ==
  /\ simplex_strategy \notin ParallelStrategies =>
       simplex_strategy \in {"kSimplexStrategyDual", "kSimplexStrategyPrimal"}
  /\ thread_options.simplex_strategy = "kSimplexStrategyChoose" =>
       (simplex_strategy = "kSimplexStrategyPrimal"
          <=> num_primal_infeasibility = 0)

\* C24 as stated: the strategy is DualTasks or DualMulti only if the
\* parallel option is on and the available threads are at least the
\* minimum of that variant; otherwise it is serial dual or primal, primal
\* under 'choose' exactly when there is no primal infeasibility
C24_ParallelOnlyWithOptionAndThreads ==
  Chosen =>
    /\ simplex_strategy \in ParallelStrategies =>
         /\ thread_options.parallel = kHighsOnString
         /\ thread_options.omp_max_threads >= MinThreadsOf(simplex_strategy)
    /\ SerialChoice

\* C24 (amended): the strategy is DualTasks or DualMulti only if the option
\* names that variant itself, or it is DualMulti taken in place of serial
\* dual with the parallel option on and at least kDualMultiMinThreads
\* threads available; otherwise it is serial dual or primal, primal under
\* 'choose' exactly when there is no primal infeasibility
C24_ParallelByOptionOrThreads ==
  Chosen =>
    /\ simplex_strategy \in ParallelStrategies =>
         \/ simplex_strategy = thread_options.simplex_strategy
         \/ /\ simplex_strategy = "kSimplexStrategyDualMulti"
            /\ thread_options.parallel = kHighsOnString
            /\ thread_options.omp_max_threads >= kDualMultiMinThreads
    /\ SerialChoice

\* serial dual chosen by primal infeasibility has been replaced by DualMulti
C24_Witness ==
  /\ Chosen
  /\ thread_options.simplex_strategy = "kSimplexStrategyChoose"
  /\ simplex_strategy = "kSimplexStrategyDualMulti"
  /\ num_threads > 1

\* ------------------------------------- properties of SpecSolve: errors

\* the driver runs of this solve that returned Error
ErrorRuns == {i \in DOMAIN runs : runs[i].call = "kError"}

\* C25: if a driver invoked during solve (the initial run, the primal
\* re-run after a dual UnboundedOrInfeasible, the driver of cleanup) has
\* returned Error, solve returns Error, and cleanup is not started after a
\* driver has returned Error
C25_DriverErrorIsReturned ==
  /\ (Returned /\ ErrorRuns # {}) => solve_return = "kError"
  /\ \A i \in ErrorRuns :
       /\ \A j \in RunsOfStage("cleanup") : j <= i
       /\ ~(pc \in {"call", "run"} /\ stage = "cleanup")

\* a solve has returned whose dual run returned Error with
\* UnboundedOrInfeasible and whose primal re-run then returned Ok with no
\* status set
C25_Witness ==
  /\ Returned
  /\ Len(runs) = 2
  /\ runs[1].call = "kError"
  /\ runs[1].status = "kUnboundedOrInfeasible"
  /\ runs[2].stage = "rerun"
  /\ runs[2].call = "kOk"
  /\ runs[2].status = "kNotset"

\* ------------------------------------------ specification of the pivots

\* the bounds of the rows of the LP of SpecPivot
PivotRowBounds == {FixedBounds, BoxedBounds}

\* the largest number of updates between two rebuilds
MaxPivot == 2

\* an LP of two columns and two rows with its logical basis, after
\* initialiseForSolve and a rebuild
InitPivotSpec ==
  /\ InitSolve
  /\ InitHistory
  /\ InitPerturb
  /\ InitEdit
  /\ InitInf
  /\ InitOpt
  /\ InitCall
  /\ InitThreads
  /\ InitDual
  /\ InitBack
  /\ num_col_ = 2
  /\ num_row_ = 2
  /\ \E cb0 \in WorkBounds, cb1 \in WorkBounds,
        rb0 \in PivotRowBounds, rb1 \in PivotRowBounds :
       /\ col_lower_ = <<cb0[1], cb1[1]>>
       /\ col_upper_ = <<cb0[2], cb1[2]>>
       /\ row_lower_ = <<rb0[1], rb1[1]>>
       /\ row_upper_ = <<rb0[2], rb1[2]>>
  /\ col_cost_ = <<Unit, Unit>>
  /\ a_matrix_ = <<{<<0, Unit>>}, {<<1, Unit>>}>>
  /\ integrality_ = <<>>
  /\ user_bound_scale_ = 0
  /\ user_cost_scale_ = 0
  /\ basis_valid = FALSE
  /\ col_status = <<>>
  /\ row_status = <<>>
  /\ model_status_ = "kNotset"
  /\ solution_valid = FALSE
  /\ info_valid = FALSE
  /\ last_return = "none"
  /\ has_basis = TRUE
  /\ basicIndex_ = [i \in 1..num_row_ |-> num_col_ + (i - 1)]
  /\ nonbasicFlag_ =
       [k \in 1..num_tot |->
          IF k <= num_col_ THEN kNonbasicFlagTrue ELSE kNonbasicFlagFalse]
  /\ workLower_ = [k \in 1..num_tot |-> LpLower(k - 1)]
  /\ workUpper_ = [k \in 1..num_tot |-> LpUpper(k - 1)]
  /\ nonbasicMove_ =
       [k \in 1..num_tot |->
          NonbasicValueAndMove(nonbasicFlag_[k], workLower_[k], workUpper_[k],
                               IF k <= num_col_
                               THEN MoveFromBounds(workLower_[k], workUpper_[k])
                               ELSE 0,
                               0)[1]]
  /\ workValue_ =
       [k \in 1..num_tot |->
          NonbasicValueAndMove(nonbasicFlag_[k], workLower_[k], workUpper_[k],
                               nonbasicMove_[k], 0)[2]]
  /\ workDual_ = [k \in 1..num_tot |-> 0]
  /\ bounds_perturbed = FALSE
  /\ initialised_for_solve = TRUE
  /\ nvm_pending = FALSE
  /\ has_invert = TRUE
  /\ has_fresh_invert = TRUE
  /\ has_fresh_rebuild = TRUE
  /\ num_basic_logicals = num_row_
  /\ has_matrix = TRUE
  /\ update_count = 0
  /\ rank_deficiency = 0
  /\ noPvR = <<>>
  /\ noPvC = <<>>
  /\ initialise_return = 0
  /\ basic_variables = <<>>
  /\ computeFactor_calls = 1

\* the pivots a driver may ask for
Pivots ==
  {<<variable_in, row_out, move_out>> \in
     (0..(num_tot - 1)) \X (0..(num_row_ - 1)) \X {-1, 1} :
     At(nonbasicFlag_, variable_in) = kNonbasicFlagTrue}

NextPivotStep ==
  \/ \E pivot \in Pivots :
       /\ update_count < MaxPivot
       /\ UpdatePivotsLogicals(pivot[1], pivot[2], pivot[3])
  \/ /\ ~has_fresh_rebuild
     /\ Rebuild
     /\ UNCHANGED num_basic_logicals
  \/ /\ update_count > 0
     /\ SetBasisLogicals
     /\ UNCHANGED <<factorVars, has_fresh_rebuild>>

NextPivot ==
  NextPivotStep /\
    UNCHANGED <<perturbVars, editVars, infVars, optVars, callVars, threadVars, dualVars,
                backVars>>

SpecPivot == InitPivotSpec /\ [][NextPivot]_vars

\* ------------------------------------------------ properties of SpecPivot

\* the outgoing variable is nonbasic at the bound move_out asks for
OutgoingAtBound(variable_out, move_out) ==
  /\ At(nonbasicFlag_', variable_out) = kNonbasicFlagTrue
  /\ IF At(workLower_, variable_out) = At(workUpper_, variable_out)
     THEN /\ At(nonbasicMove_', variable_out) = 0
          /\ At(workValue_', variable_out) = At(workLower_, variable_out)
     ELSE IF move_out = -1
     THEN /\ At(nonbasicMove_', variable_out) = 1
          /\ At(workValue_', variable_out) = At(workLower_, variable_out)
     ELSE /\ At(nonbasicMove_', variable_out) = -1
          /\ At(workValue_', variable_out) = At(workUpper_, variable_out)

\* the variables other than the two of the pivot and the other rows are as
\* before
OthersUnchanged(variable_in, variable_out, row_out) ==
  /\ \A v \in Variables \ {variable_in, variable_out} :
       /\ At(nonbasicFlag_', v) = At(nonbasicFlag_, v)
       /\ At(nonbasicMove_', v) = At(nonbasicMove_, v)
       /\ At(workValue_', v) = At(workValue_, v)
  /\ \A iRow \in 0..(num_row_ - 1) \ {row_out} :
       At(basicIndex_', iRow) = At(basicIndex_, iRow)
  /\ Len(basicIndex_') = Len(basicIndex_)
  /\ Len(nonbasicFlag_') = Len(nonbasicFlag_)

\* C26: updatePivots(variable_in, row_out, move_out) makes variable_in the
\* basic variable of row_out with move 0, makes the variable that was basic
\* there nonbasic at the bound move_out gives (at workLower with move 0 if
\* its bounds are equal), adds one to update_count, clears has_invert,
\* has_fresh_invert and has_fresh_rebuild, and leaves the flags, moves and
\* values of the other variables and the other entries of basicIndex alone
C26_UpdatePivots ==
  [][\A pivot \in Pivots :
       UpdatePivotsRebuild(pivot[1], pivot[2], pivot[3]) =>
         /\ At(basicIndex_', pivot[2]) = pivot[1]
         /\ At(nonbasicFlag_', pivot[1]) = kNonbasicFlagFalse
         /\ At(nonbasicMove_', pivot[1]) = 0
         /\ OutgoingAtBound(At(basicIndex_, pivot[2]), pivot[3])
         /\ update_count' = update_count + 1
         /\ ~has_invert' /\ ~has_fresh_invert' /\ ~has_fresh_rebuild'
         /\ OthersUnchanged(pivot[1], At(basicIndex_, pivot[2]), pivot[2])]_vars

\* a pivot has been made from fresh data that took a boxed variable out of
\* the basis to its lower bound, after an earlier pivot had brought it in
C26_Witness ==
  /\ lastOp = "updatePivots"
  /\ update_count = MaxPivot
  /\ ~has_fresh_rebuild
  /\ \E v \in Variables :
       /\ v < num_col_
       /\ At(nonbasicFlag_, v) = kNonbasicFlagTrue
       /\ At(nonbasicMove_, v) = 1
       /\ At(workLower_, v) < At(workUpper_, v)
       /\ At(workValue_, v) = At(workLower_, v)
       /\ \A iRow \in 0..(num_row_ - 1) : At(basicIndex_, iRow) # v

\* ----------------------------------- specification of the dual correction

\* the reduced costs computeDual can leave, in halves of tau_d
DualSteps == -(TauD + 1)..(TauD + 1)

\* random_.fraction() * tau_d
Fractions == 0..(TauD - 1)

\* the value the caller's count holds before the call
StaleCount == -1 - MaxTot

\* an LP of two columns and one row with its logical basis, after
\* initialiseForSolve
InitDualSpec ==
  /\ InitSolve
  /\ InitHistory
  /\ InitPerturb
  /\ InitFactor
  /\ InitEdit
  /\ InitInf
  /\ InitOpt
  /\ InitCall
  /\ InitThreads
  /\ InitBack
  /\ num_col_ = 2
  /\ num_row_ = 1
  /\ \E cb0 \in WorkBounds, cb1 \in WorkBounds :
       /\ col_lower_ = <<cb0[1], cb1[1]>>
       /\ col_upper_ = <<cb0[2], cb1[2]>>
  /\ row_lower_ = <<BoxedBounds[1]>>
  /\ row_upper_ = <<BoxedBounds[2]>>
  /\ col_cost_ = <<Unit, Unit>>
  /\ a_matrix_ = <<{<<0, Unit>>}, {<<0, Unit>>}>>
  /\ integrality_ = <<>>
  /\ user_bound_scale_ = 0
  /\ user_cost_scale_ = 0
  /\ basis_valid = FALSE
  /\ col_status = <<>>
  /\ row_status = <<>>
  /\ model_status_ = "kNotset"
  /\ solution_valid = FALSE
  /\ info_valid = FALSE
  /\ last_return = "none"
  /\ has_basis = TRUE
  /\ basicIndex_ = [i \in 1..num_row_ |-> num_col_ + (i - 1)]
  /\ nonbasicFlag_ =
       [k \in 1..num_tot |->
          IF k <= num_col_ THEN kNonbasicFlagTrue ELSE kNonbasicFlagFalse]
  /\ workLower_ = [k \in 1..num_tot |-> LpLower(k - 1)]
  /\ workUpper_ = [k \in 1..num_tot |-> LpUpper(k - 1)]
  /\ nonbasicMove_ =
       [k \in 1..num_tot |->
          NonbasicValueAndMove(nonbasicFlag_[k], workLower_[k], workUpper_[k],
                               IF k <= num_col_
                               THEN MoveFromBounds(workLower_[k], workUpper_[k])
                               ELSE 0,
                               0)[1]]
  /\ workValue_ =
       [k \in 1..num_tot |->
          NonbasicValueAndMove(nonbasicFlag_[k], workLower_[k], workUpper_[k],
                               nonbasicMove_[k], 0)[2]]
  /\ workDual_ = [k \in 1..num_tot |-> 0]
  /\ bounds_perturbed = FALSE
  /\ initialised_for_solve = TRUE
  /\ nvm_pending = FALSE
  /\ has_fresh_rebuild = FALSE
  /\ workCost_ = [k \in 1..num_tot |-> IF k <= num_col_ THEN Unit ELSE 0]
  /\ workShift_ = [k \in 1..num_tot |-> 0]
  /\ costs_perturbed = FALSE
  /\ free_infeasibility_count = StaleCount
  /\ correct_dual =
       [returned |-> TRUE, flip_dual_objective_value_change |-> 0,
        num_shift_skipped |-> 0, allow_cost_perturbation |-> FALSE,
        fraction |-> <<>>]

\* the duals computeDual may leave: 0 for a basic variable
DualsComputed ==
  {d \in [1..num_tot -> DualSteps] :
     \A k \in 1..num_tot : nonbasicFlag_[k] = kNonbasicFlagFalse => d[k] = 0}

\* boxed columns are moved to their upper bound, the duals are computed and
\* correctDual is called
NextDualStep ==
  \/ \E iCol \in 0..(num_col_ - 1) :
       /\ lastOp \in {"none", "flipBound"}
       /\ At(nonbasicMove_, iCol) = kNonbasicMoveUp
       /\ At(workUpper_, iCol) # kHighsInf
       /\ FlipBound(iCol)
       /\ UNCHANGED dualVars
  \/ \E dual \in DualsComputed :
       /\ lastOp \in {"none", "flipBound"}
       /\ ComputeDual(dual)
       /\ UNCHANGED dualVars
  \/ \E allow_cost_perturbation \in BOOLEAN,
        fraction \in [1..num_tot -> Fractions] :
       /\ lastOp = "computeDual"
       /\ CorrectDualCall(allow_cost_perturbation, fraction)

NextDual ==
  NextDualStep /\
    UNCHANGED <<perturbVars, factorVars, editVars, infVars, optVars, callVars, threadVars,
                has_fresh_rebuild, num_basic_logicals, backVars>>

SpecDual == InitDualSpec /\ [][NextDual]_vars

\* ------------------------------------------------- properties of SpecDual

\* variable i is nonbasic, not free, and its dual is infeasible by tau_d
\* or more
DualInfeasible(i) ==
  /\ At(nonbasicFlag_, i) # kNonbasicFlagFalse
  /\ ~(At(workLower_, i) = -kHighsInf /\ At(workUpper_, i) = kHighsInf)
  /\ At(nonbasicMove_, i) * At(workDual_, i) <= -TauD

Boxed(i) == At(workLower_, i) # -kHighsInf /\ At(workUpper_, i) # kHighsInf

NonbasicFree(i) ==
  /\ At(nonbasicFlag_, i) # kNonbasicFlagFalse
  /\ At(workLower_, i) = -kHighsInf
  /\ At(workUpper_, i) = kHighsInf

\* variable i is as before the call
Untouched(i) ==
  /\ At(nonbasicMove_', i) = At(nonbasicMove_, i)
  /\ At(workValue_', i) = At(workValue_, i)
  /\ At(workDual_', i) = At(workDual_, i)
  /\ At(workCost_', i) = At(workCost_, i)

\* the bound has been flipped
FlippedAt(i) ==
  /\ At(nonbasicMove_', i) = -At(nonbasicMove_, i)
  /\ At(workValue_', i) =
       (IF At(nonbasicMove_, i) = 1 THEN At(workUpper_, i)
        ELSE At(workLower_, i))
  /\ At(workDual_', i) = At(workDual_, i)
  /\ At(workCost_', i) = At(workCost_, i)

\* cost and dual have been shifted by the same amount, to a dual of
\* (1 + r) tau_d with the sign of the move
ShiftedAt(i, r_tau_d) ==
  /\ At(workDual_', i) =
       (IF At(nonbasicMove_, i) = 1 THEN TauD + r_tau_d
        ELSE -(TauD + r_tau_d))
  /\ At(workCost_', i) - At(workCost_, i) =
       At(workDual_', i) - At(workDual_, i)
  /\ At(nonbasicMove_', i) = At(nonbasicMove_, i)
  /\ At(workValue_', i) = At(workValue_, i)

\* the sum over the boxed infeasible variables of
\* old_move * (workUpper - workLower) * workDual * cost_scale
RECURSIVE FlipSum(_)
FlipSum(n) ==
  IF n = 0 THEN 0
  ELSE FlipSum(n - 1)
         + (IF DualInfeasible(n - 1) /\ Boxed(n - 1)
            THEN At(nonbasicMove_, n - 1)
                   * (At(workUpper_, n - 1) - At(workLower_, n - 1))
                   * At(workDual_, n - 1) * cost_scale_
            ELSE 0)

C27_WitnessSkipped ==
  /\ lastOp = "correctDual"
  /\ ~correct_dual.returned
  /\ correct_dual.flip_dual_objective_value_change # 0
  /\ free_infeasibility_count = StaleCount

\* ------------------------------------------ HEkk::getNonsingularInverse

\* workEdWtFull_[basicIndex[i]] = workEdWt_[i] for the rows in turn
Scatter(full, index, weights) ==
  [k \in DOMAIN full |->
     IF \E i \in DOMAIN index : index[i] = k - 1
     THEN LET last == CHOOSE i \in DOMAIN index :
                        /\ index[i] = k - 1
                        /\ \A j \in DOMAIN index : index[j] = k - 1 => j <= i
          IN weights[last]
     ELSE full[k]]

\* variant: the weights stay with the rows
Gather_ByRow(full, index) == [i \in DOMAIN index |-> full[i]]

\* workEdWt_[i] = workEdWtFull_[basicIndex[i]]
Gather(full, index) == [i \in DOMAIN index |-> At(full, index[i])]

\* the sequences with the entries of seq in any order
Permuted(seq) ==
  {[i \in DOMAIN seq |-> seq[pi[i]]] :
     pi \in {f \in [DOMAIN seq -> DOMAIN seq] :
               \A i, j \in DOMAIN seq : i # j => f[i] # f[j]}}

\* the outcomes of factor_.build for a basis, with the basic variables left
\* in any order by the pivoting
PermutedBuilds(index) ==
  UNION {{[b EXCEPT !.basicIndex_ = q] : q \in Permuted(b.basicIndex_)} :
           b \in FactorBuilds(index)}

\* variant: the limit is half the limit in force
NewUpdateLimit_HalfLimit(simplex_update_count) == update_limit \div 2

\* getNonsingularInverse: new_simplex_update_limit
NewUpdateLimit(simplex_update_count) == simplex_update_count \div 2

\* variant: one update is enough to backtrack
TooFewUpdates_None(simplex_update_count) == simplex_update_count < 1

\* getNonsingularInverse: if (simplex_update_count <= 1) return false
TooFewUpdates(simplex_update_count) == simplex_update_count <= 1

\* the simplex basis and what is saved with it, as putBacktrackingBasis
\* saves them; scattered: the edge weights by variable, NoWeights for NULL
NoWeights == <<>>

Snapshot(basicIndex_before_compute_factor, scattered) ==
  [basicIndex_ |-> basicIndex_before_compute_factor,
   nonbasicFlag_ |-> nonbasicFlag_,
   nonbasicMove_ |-> nonbasicMove_,
   costs_perturbed |-> costs_perturbed,
   workShift_ |-> workShift_,
   edge_weights_ |->
     IF workEdWt_null THEN backtracking_basis_.edge_weights_ ELSE scattered]

\* bool HEkk::getNonsingularInverse(solve_phase) as a value: what it leaves
\* and returns.  build is the outcome of factor_.build for the basis,
\* backtrack its outcome for the basis of the snapshot.
GetNonsingularInverseOutcome(build, backtrack) ==
  LET simplex_update_count == update_count
      scattered == IF workEdWt_null THEN workEdWtFull_
                   ELSE Scatter(workEdWtFull_, basicIndex_, workEdWt_)
      deficient == build.rank_deficiency # 0
      restored == deficient /\ valid_backtracking_basis_
      last == IF restored THEN backtrack ELSE build
      full == IF restored /\ ~workEdWt_null
              THEN backtracking_basis_.edge_weights_ ELSE scattered
      returned ==
        \/ ~deficient
        \/ /\ restored
           /\ backtrack.rank_deficiency = 0
           /\ ~TooFewUpdates(simplex_update_count)
  IN [returned |-> returned,
      first_rank_deficiency |-> build.rank_deficiency,
      restored |-> restored,
      basicIndex_ |-> last.basicIndex_,
      nonbasicFlag_ |-> IF restored THEN backtracking_basis_.nonbasicFlag_
                        ELSE nonbasicFlag_,
      nonbasicMove_ |-> IF restored THEN backtracking_basis_.nonbasicMove_
                        ELSE nonbasicMove_,
      costs_perturbed |-> IF restored THEN backtracking_basis_.costs_perturbed
                          ELSE costs_perturbed,
      workShift_ |-> IF restored THEN backtracking_basis_.workShift_
                     ELSE workShift_,
      rank_deficiency |-> last.rank_deficiency,
      noPvR |-> last.noPvR,
      noPvC |-> last.noPvC,
      has_invert |-> ComputeFactorInvert(last)[1],
      has_fresh_invert |-> ComputeFactorInvert(last)[2],
      calls |-> IF restored THEN 2 ELSE 1,
      backtracking_ |-> IF restored THEN TRUE
                        ELSE IF deficient THEN backtracking_ ELSE FALSE,
      update_limit |->
        IF ~deficient THEN options_simplex_update_limit
        ELSE IF returned THEN NewUpdateLimit(simplex_update_count)
        ELSE update_limit,
      valid_backtracking_basis_ |-> (~deficient \/ valid_backtracking_basis_),
      backtracking_basis_ |->
        IF deficient THEN backtracking_basis_
        ELSE Snapshot(basicIndex_, scattered),
      workEdWtFull_ |-> full,
      workEdWt_ |-> IF returned /\ ~workEdWt_null
                    THEN Gather(full, last.basicIndex_) ELSE workEdWt_]

\* bool HEkk::getNonsingularInverse(const HighsInt solve_phase).
\* updateSimplexLpStatus(kBacktracking) is not in these sources: it is taken
\* to clear has_matrix and has_fresh_rebuild.
GetNonsingularInverse(build, backtrack) ==
  LET r == GetNonsingularInverseOutcome(build, backtrack)
  IN /\ has_basis
     /\ BasisDimensioned
     /\ basicIndex_' = r.basicIndex_
     /\ nonbasicFlag_' = r.nonbasicFlag_
     /\ nonbasicMove_' = r.nonbasicMove_
     /\ costs_perturbed' = r.costs_perturbed
     /\ workShift_' = r.workShift_
     /\ rank_deficiency' = r.rank_deficiency
     /\ noPvR' = r.noPvR
     /\ noPvC' = r.noPvC
     /\ has_invert' = r.has_invert
     /\ has_fresh_invert' = r.has_fresh_invert
     /\ has_matrix' = (has_matrix /\ ~r.restored)
     /\ has_fresh_rebuild' = (has_fresh_rebuild /\ ~r.restored)
     /\ update_count' = 0
     /\ computeFactor_calls' = r.calls
     /\ backtracking_' = r.backtracking_
     /\ update_limit' = r.update_limit
     /\ valid_backtracking_basis_' = r.valid_backtracking_basis_
     /\ backtracking_basis_' = r.backtracking_basis_
     /\ workEdWtFull_' = r.workEdWtFull_
     /\ workEdWt_' = r.workEdWt_
     /\ nonsingular_return' =
          [returned |-> r.returned,
           rank_deficiency |-> r.first_rank_deficiency]
     /\ lastOp' = "getNonsingularInverse"
     /\ UNCHANGED <<has_basis, workEdWt_null, workCost_,
                    free_infeasibility_count, correct_dual,
                    initialise_return, basic_variables, lpVars, hlVars,
                    workVars, historyVars, pc, stage, driver,
                    scaled_model_status_, solve_bailout_,
                    called_return_from_solve_, num_primal_infeasibility,
                    num_dual_infeasibility, simplex_strategy,
                    dual_edge_weight_strategy,
                    dual_simplex_cost_perturbation_multiplier,
                    primal_simplex_bound_perturbation_multiplier,
                    iteration_count_, return_status>>

\* void HEkk::putBacktrackingBasis(): the basis as it is, with the edge
\* weights scattered
PutBacktrackingBasisNow ==
  LET scattered == IF workEdWt_null THEN workEdWtFull_
                   ELSE Scatter(workEdWtFull_, basicIndex_, workEdWt_)
  IN /\ has_basis
     /\ BasisDimensioned
     /\ workEdWtFull_' = scattered
     /\ valid_backtracking_basis_' = TRUE
     /\ backtracking_basis_' = Snapshot(basicIndex_, scattered)
     /\ lastOp' = "putBacktrackingBasis"
     /\ UNCHANGED <<modelVars, factorVars, has_fresh_rebuild, dualVars,
                    workEdWt_null, workEdWt_, backtracking_, update_limit,
                    nonsingular_return, historyVars, pc, stage, driver,
                    scaled_model_status_, solve_bailout_,
                    called_return_from_solve_, num_primal_infeasibility,
                    num_dual_infeasibility, simplex_strategy,
                    dual_edge_weight_strategy,
                    dual_simplex_cost_perturbation_multiplier,
                    primal_simplex_bound_perturbation_multiplier,
                    iteration_count_, return_status>>

\* HighsStatus HEkk::returnFromSolve(return_status) at the end of a driver
ReturnFromSolveCall ==
  /\ ~called_return_from_solve_
  /\ ReturnFromSolve
  /\ lastOp' = "returnFromSolve"
  /\ UNCHANGED <<modelVars, factorVars, has_fresh_rebuild, dualVars, backVars,
                 solve_return, choose_calls, runs, assertion_failed, pc,
                 stage, driver, scaled_model_status_, solve_bailout_,
                 num_primal_infeasibility, num_dual_infeasibility,
                 simplex_strategy, dual_edge_weight_strategy,
                 dual_simplex_cost_perturbation_multiplier,
                 primal_simplex_bound_perturbation_multiplier,
                 iteration_count_, return_status>>

\* an iteration of a driver (HEkkDual, HEkkPrimal): updatePivots, a new
\* edge weight for the row and a shift of the cost of the entering variable
Iterate(variable_in, row_out, weight, shift) ==
  /\ UpdatePivotsRebuild(variable_in, row_out, 1)
  /\ workEdWt_' = IF workEdWt_null THEN workEdWt_
                  ELSE Put(workEdWt_, row_out, weight)
  /\ workShift_' = Put(workShift_, variable_in, shift)
  /\ costs_perturbed' = (costs_perturbed \/ shift # 0)
  /\ UNCHANGED <<workEdWt_null, workEdWtFull_, backtracking_basis_,
                 backtracking_, update_limit, nonsingular_return, workCost_,
                 free_infeasibility_count, correct_dual>>

\* the entry of a driver in a later solve, by contract: returnFromSolve
\* asserts that the flag is clear; a driver ends its solve when
\* getNonsingularInverse returns false
DriverEntry ==
  /\ called_return_from_solve_
  /\ called_return_from_solve_' = FALSE
  /\ nonsingular_return' = [returned |-> TRUE, rank_deficiency |-> 0]
  /\ lastOp' = "driverInitialise"
  /\ UNCHANGED <<modelVars, factorVars, has_fresh_rebuild, dualVars,
                 workEdWt_null, workEdWt_, workEdWtFull_, backtracking_basis_,
                 backtracking_, update_limit, historyVars, pc, stage, driver, scaled_model_status_,
                 solve_bailout_, valid_backtracking_basis_,
                 num_primal_infeasibility, num_dual_infeasibility,
                 simplex_strategy, dual_edge_weight_strategy,
                 dual_simplex_cost_perturbation_multiplier,
                 primal_simplex_bound_perturbation_multiplier,
                 iteration_count_, return_status>>

\* ------------------------------------- specification: backtracking (HEkk)

\* the edge weights a driver gives and the shifts of cost it makes
BackWeights == {3 * Unit}
BackShifts == {0, Unit}

\* one boxed column with an entry in the first of two boxed rows, the
\* logical basis factorized; dual edge weights attached or not
InitBackSpec ==
  /\ InitSolve
  /\ dual_edge_weight_strategy = "kSimplexDualEdgeWeightStrategySteepestEdge"
  /\ InitHistory
  /\ InitPerturb
  /\ InitEdit
  /\ InitInf
  /\ InitOpt
  /\ InitCall
  /\ InitThreads
  /\ num_col_ = 1
  /\ num_row_ = 2
  /\ col_lower_ = <<BoxedBounds[1]>>
  /\ col_upper_ = <<BoxedBounds[2]>>
  /\ row_lower_ = <<BoxedBounds[1], BoxedBounds[1]>>
  /\ row_upper_ = <<BoxedBounds[2], BoxedBounds[2]>>
  /\ col_cost_ = <<Unit>>
  /\ a_matrix_ = <<{<<0, Unit>>}>>
  /\ integrality_ = <<>>
  /\ user_bound_scale_ = 0
  /\ user_cost_scale_ = 0
  /\ basis_valid = FALSE
  /\ col_status = <<>>
  /\ row_status = <<>>
  /\ model_status_ = "kNotset"
  /\ solution_valid = FALSE
  /\ info_valid = FALSE
  /\ last_return = "none"
  /\ has_basis = TRUE
  /\ basicIndex_ = [i \in 1..num_row_ |-> num_col_ + (i - 1)]
  /\ nonbasicFlag_ =
       [k \in 1..num_tot |->
          IF k <= num_col_ THEN kNonbasicFlagTrue ELSE kNonbasicFlagFalse]
  /\ workLower_ = [k \in 1..num_tot |-> LpLower(k - 1)]
  /\ workUpper_ = [k \in 1..num_tot |-> LpUpper(k - 1)]
  /\ nonbasicMove_ =
       [k \in 1..num_tot |->
          IF k <= num_col_ THEN kNonbasicMoveUp ELSE kNonbasicMoveZe]
  /\ workValue_ =
       [k \in 1..num_tot |-> IF k <= num_col_ THEN workLower_[k] ELSE 0]
  /\ workDual_ = [k \in 1..num_tot |-> 0]
  /\ bounds_perturbed = FALSE
  /\ initialised_for_solve = TRUE
  /\ nvm_pending = FALSE
  /\ has_invert = TRUE
  /\ has_fresh_invert = TRUE
  /\ has_fresh_rebuild = TRUE
  /\ num_basic_logicals = num_row_
  /\ has_matrix = TRUE
  /\ update_count = 0
  /\ rank_deficiency = 0
  /\ noPvR = <<>>
  /\ noPvC = <<>>
  /\ initialise_return = 0
  /\ basic_variables = <<>>
  /\ computeFactor_calls = 1
  /\ workCost_ = [k \in 1..num_tot |-> IF k <= num_col_ THEN Unit ELSE 0]
  /\ workShift_ = [k \in 1..num_tot |-> 0]
  /\ costs_perturbed = FALSE
  /\ free_infeasibility_count = 0
  /\ correct_dual =
       [returned |-> TRUE, flip_dual_objective_value_change |-> 0,
        num_shift_skipped |-> 0, allow_cost_perturbation |-> FALSE,
        fraction |-> <<>>]
  /\ workEdWt_null \in BOOLEAN
  /\ workEdWt_ = IF workEdWt_null THEN <<>> ELSE <<Unit, 2 * Unit>>
  /\ workEdWtFull_ = IF workEdWt_null THEN <<>>
                     ELSE [k \in 1..num_tot |-> 0]
  /\ backtracking_basis_ =
       [basicIndex_ |-> <<>>, nonbasicFlag_ |-> <<>>, nonbasicMove_ |-> <<>>,
        costs_perturbed |-> FALSE, workShift_ |-> <<>>,
        edge_weights_ |-> <<>>]
  /\ backtracking_ = FALSE
  /\ update_limit = options_simplex_update_limit
  /\ nonsingular_return = [returned |-> TRUE, rank_deficiency |-> 0]

NextBackStep ==
  \/ \E variable_in \in Variables, row_out \in 0..(num_row_ - 1),
        weight \in BackWeights :
       \E shift \in IF variable_in < num_col_ THEN BackShifts ELSE {0} :
       /\ ~called_return_from_solve_
       /\ nonsingular_return.returned
       /\ update_count < update_limit
       /\ At(nonbasicFlag_, variable_in) = kNonbasicFlagTrue
       /\ Iterate(variable_in, row_out, weight, shift)
  \/ \E build \in PermutedBuilds(basicIndex_) :
       \E backtrack \in
            IF build.rank_deficiency # 0 /\ valid_backtracking_basis_
            THEN PermutedBuilds(backtracking_basis_.basicIndex_)
            ELSE {build} :
         /\ ~called_return_from_solve_
         /\ nonsingular_return.returned
         /\ GetNonsingularInverse(build, backtrack)
  \/ /\ ~called_return_from_solve_
     /\ nonsingular_return.returned
     /\ PutBacktrackingBasisNow
  \/ rfs_calls = 0 /\ ReturnFromSolveCall
  \/ DriverEntry

NextBack ==
  NextBackStep /\
    UNCHANGED <<perturbVars, editVars, infVars, optVars, callVars, threadVars,
                num_basic_logicals>>

SpecBack == InitBackSpec /\ [][NextBack]_vars

\* ------------------------------------------------- properties of SpecBack

\* the step is a call of getNonsingularInverse whose factorization is rank
\* deficient
DeficientCall ==
  /\ lastOp' = "getNonsingularInverse"
  /\ nonsingular_return'.rank_deficiency # 0

\* the call backtracks: a valid snapshot, more than one update made
BacktrackCall ==
  /\ DeficientCall
  /\ valid_backtracking_basis_
  /\ update_count > 1

\* the basis, costs_perturbed, workShift_ and the scattered edge weights are
\* those of the snapshot, the basic variables in the order the
\* factorization leaves
RestoredFromSnapshot ==
  /\ nonbasicFlag_' = backtracking_basis_.nonbasicFlag_
  /\ nonbasicMove_' = backtracking_basis_.nonbasicMove_
  /\ \E build \in PermutedBuilds(backtracking_basis_.basicIndex_) :
       /\ basicIndex_' = build.basicIndex_
       /\ rank_deficiency' = build.rank_deficiency
  /\ costs_perturbed' = backtracking_basis_.costs_perturbed
  /\ workShift_' = backtracking_basis_.workShift_
  /\ ~workEdWt_null => workEdWtFull_' = backtracking_basis_.edge_weights_
  /\ computeFactor_calls' = 2

\* C28 as stated: a rank-deficient factorization with a valid snapshot and
\* more than one update restores the snapshot, refactorizes it with rank
\* deficiency 0, sets backtracking_, makes the update limit half the
\* previous update limit and returns true.
C28_BacktrackHalvesLimit ==
  [][BacktrackCall =>
       /\ RestoredFromSnapshot
       /\ rank_deficiency' = 0
       /\ backtracking_'
       /\ update_limit' = update_limit \div 2
       /\ nonsingular_return'.returned]_vars

\* C28 amended: a rank-deficient factorization with a valid snapshot and
\* more than one update restores the snapshot, refactorizes it and sets
\* backtracking_; when that refactorization has rank deficiency 0 the
\* update limit becomes half the number of updates made since the previous
\* factorization and the function returns true.
C28_BacktrackHalvesUpdates ==
  [][BacktrackCall =>
       /\ RestoredFromSnapshot
       /\ backtracking_'
       /\ rank_deficiency' = 0 =>
            /\ update_limit' = update_count \div 2
            /\ nonsingular_return'.returned]_vars

\* a call has backtracked to a snapshot with a shifted cost, and its limit is
\* not half the limit of the options
C28_Witness ==
  /\ lastOp = "getNonsingularInverse"
  /\ nonsingular_return.rank_deficiency # 0
  /\ nonsingular_return.returned
  /\ backtracking_
  /\ rank_deficiency = 0
  /\ backtracking_basis_.costs_perturbed
  /\ costs_perturbed
  /\ update_limit # options_simplex_update_limit \div 2

\* a rank-deficient call returns false exactly when there is no valid
\* snapshot, or the restored basis is rank deficient, or at most one update
\* was made
FailsExactlyWhen ==
  DeficientCall =>
    (~nonsingular_return'.returned <=>
       \/ ~valid_backtracking_basis_
       \/ valid_backtracking_basis_ /\ rank_deficiency' # 0
       \/ update_count <= 1)

\* returnFromSolve leaves no valid snapshot
ReturnClearsSnapshot ==
  lastOp' = "returnFromSolve" => ~valid_backtracking_basis_'

\* the step is a call of getNonsingularInverse whose factorization has full
\* rank
FullRankCall ==
  /\ lastOp' = "getNonsingularInverse"
  /\ nonsingular_return'.rank_deficiency = 0

\* C29 as stated: a rank-deficient call returns false exactly in the three
\* cases, returnFromSolve clears the snapshot, and only a full-rank
\* getNonsingularInverse makes a snapshot valid again, so that a
\* rank-deficient call before one fails.
C29_FailsUntilFullRank ==
  [][/\ FailsExactlyWhen
     /\ ReturnClearsSnapshot
     /\ (~valid_backtracking_basis_ /\ valid_backtracking_basis_') =>
          FullRankCall]_vars

\* C29 amended: a rank-deficient call returns false exactly in the three
\* cases, returnFromSolve clears the snapshot, and only a full-rank
\* getNonsingularInverse or a call of putBacktrackingBasis() makes a
\* snapshot valid again, so that a rank-deficient call before either fails.
C29_FailsUntilSnapshot ==
  [][/\ FailsExactlyWhen
     /\ ReturnClearsSnapshot
     /\ (~valid_backtracking_basis_ /\ valid_backtracking_basis_') =>
          (FullRankCall \/ lastOp' = "putBacktrackingBasis")]_vars

\* a rank-deficient call has failed in a later solve for want of a snapshot
C29_Witness ==
  /\ lastOp = "getNonsingularInverse"
  /\ nonsingular_return.rank_deficiency # 0
  /\ ~nonsingular_return.returned
  /\ ~valid_backtracking_basis_
  /\ update_count = 0
  /\ rfs_calls > 0

\* a rank-deficient call has failed because the restored basis is rank
\* deficient
C29_WitnessSingularSnapshot ==
  /\ lastOp = "getNonsingularInverse"
  /\ nonsingular_return.rank_deficiency # 0
  /\ ~nonsingular_return.returned
  /\ valid_backtracking_basis_
  /\ backtracking_
  /\ rank_deficiency # 0
  /\ computeFactor_calls = 2

\* the weight of the variable iVar among the basic variables index with the
\* weights by row, none if the variable is not basic
WeightOf(iVar, index, weights) ==
  {weights[i] : i \in {j \in DOMAIN index : index[j] = iVar}}

\* C30: with edge weights attached, after a call that returns true on a
\* full-rank factorization the weight of each row is the weight that the
\* variable now basic in the row had before the call; after a backtrack it
\* is the weight saved with the snapshot for that variable.
C30_WeightsFollowVariables ==
  [][(/\ lastOp' = "getNonsingularInverse"
      /\ nonsingular_return'.returned
      /\ ~workEdWt_null) =>
       \A i \in 1..num_row_ :
         IF nonsingular_return'.rank_deficiency = 0
         THEN WeightOf(basicIndex_'[i], basicIndex_, workEdWt_) =
                {workEdWt_'[i]}
         ELSE workEdWt_'[i] =
                At(backtracking_basis_.edge_weights_, basicIndex_'[i])]_vars

\* a full-rank call has moved the basic variables to other rows and their
\* different weights with them
C30_Witness ==
  /\ lastOp = "getNonsingularInverse"
  /\ nonsingular_return.returned
  /\ nonsingular_return.rank_deficiency = 0
  /\ ~workEdWt_null
  /\ basicIndex_ # backtracking_basis_.basicIndex_
  /\ workEdWt_[1] # workEdWt_[2]
  /\ update_limit = options_simplex_update_limit

\* a backtrack has brought back weights that differ from row to row, in the
\* order of the refactorized basis
C30_WitnessBacktrack ==
  /\ lastOp = "getNonsingularInverse"
  /\ nonsingular_return.returned
  /\ nonsingular_return.rank_deficiency # 0
  /\ ~workEdWt_null
  /\ basicIndex_ # backtracking_basis_.basicIndex_
  /\ workEdWt_[1] # workEdWt_[2]

\* ------------------------------------- properties of SpecWork: the bounds

\* the working bounds of dual phase 1 for a variable with the bounds
\* lower and upper, as the four cases give them
Phase1Form(lower, upper) ==
  IF lower = -kHighsInf /\ upper = kHighsInf
  THEN <<-(1000 * Unit), 1000 * Unit>>
  ELSE IF lower = -kHighsInf THEN <<-Unit, 0>>
  ELSE IF upper = kHighsInf THEN <<0, Unit>>
  ELSE <<0, 0>>

\* the working bounds after the step are those of the LP
WorkBoundsOfLp ==
  \A v \in Variables :
    /\ At(workLower_', v) = LpLower(v)
    /\ At(workUpper_', v) = LpUpper(v)

\* a free logical
FreeLogical(v) ==
  /\ v >= num_col_
  /\ LpLower(v) = -kHighsInf
  /\ LpUpper(v) = kHighsInf

SetNonbasicMoveCall ==
  /\ has_basis
  /\ Len(nonbasicFlag_) = num_tot
  /\ nonbasicMove_' = SetNonbasicMove(nonbasicFlag_)
  /\ lastOp' = "setNonbasicMove"
  /\ UNCHANGED <<has_basis, basicIndex_, nonbasicFlag_, lpVars, hlVars,
                 workVars, solveVars, historyVars>>

\* boxed bounds whose lower bound has the larger absolute value
LowerLargerBounds == <<-(2 * Unit), Unit>>

\* the boxed bounds the variables are given
MoveBounds == {BoxedBounds, SymmetricBounds, LowerLargerBounds}

\* an LP of one boxed column and one boxed row with a basis given by the user
\* in which the nonbasic variable has no definitive status (kNonbasic); the
\* engine has no simplex basis yet
InitMoveSpec ==
  /\ InitChangeSpec
  /\ ~has_basis
  /\ <<At(col_lower_, 0), At(col_upper_, 0)>> \in MoveBounds
  /\ <<At(row_lower_, 0), At(row_upper_, 0)>> \in MoveBounds

NextMoveStep ==
  \/ ~has_basis /\ SetBasisHighs
  \/ /\ At(row_status, 0) = "kBasic"
     /\ num_col_ = 1
     /\ SetBasis
  \/ SetNonbasicMoveCall
  \/ \E index_collection \in FirstIndex(num_col_), b \in MoveBounds :
       ChangeColBoundsInterface(index_collection, FALSE, <<b[1]>>, <<b[2]>>)
  \/ \E index_collection \in FirstIndex(num_row_), b \in MoveBounds :
       ChangeRowBoundsInterface(index_collection, FALSE, <<b[1]>>, <<b[2]>>)
  \/ \E b \in MoveBounds :
       /\ has_basis
       /\ num_col_ = 1
       /\ AddColsInterface(1, 0, FALSE, FALSE, <<NewCol(b, Unit, <<>>)>>)

NextMove ==
  NextMoveStep /\
    UNCHANGED <<perturbVars, factorVars, editVars, infVars, optVars, callVars, threadVars,
                has_fresh_rebuild, num_basic_logicals, dualVars, backVars>>

SpecMove == InitMoveSpec /\ [][NextMove]_vars

\* ------------------------------------------------- properties of SpecMove

\* the bounds of variable v in the LP after the step, as the engine sees
\* them: those of the column, or those of the row negated and exchanged
LowerAfter(v) ==
  IF v < num_col_' THEN At(col_lower_', v)
  ELSE -At(row_upper_', v - num_col_')

UpperAfter(v) ==
  IF v < num_col_' THEN At(col_upper_', v)
  ELSE -At(row_lower_', v - num_col_')

\* variable v is boxed after the step
BoxedAfter(v) ==
  /\ LowerAfter(v) # UpperAfter(v)
  /\ ~highs_isInfinity(-LowerAfter(v))
  /\ ~highs_isInfinity(UpperAfter(v))

\* the step is a call of the interface that gives the nonbasic variable v,
\* which had no definitive status, its status and its move
InterfaceChooses(v) ==
  /\ has_basis
  /\ basis_valid
  /\ v \in 0..(num_tot' - 1)
  /\ \/ /\ lastOp' = "changeColBoundsInterface"
        /\ v = 0
        /\ At(col_status, 0) = "kNonbasic"
        /\ At(col_status', 0) # "kNonbasic"
     \/ /\ lastOp' = "changeRowBoundsInterface"
        /\ v = num_col_
        /\ At(row_status, 0) = "kNonbasic"
        /\ At(row_status', 0) # "kNonbasic"
     \/ /\ lastOp' = "addColsInterface"
        /\ num_col_' = num_col_ + 1
        /\ v = num_col_

\* the move the engine gives v from the bounds after the step (setBasis()
\* for a column, setNonbasicMove for a column or a row)
EngineMoveAfter(v) == MoveFromBounds(LowerAfter(v), UpperAfter(v))

\* C32 as stated: for a nonbasic boxed variable with no definitive status
\* the interface chooses the move the engine chooses, for columns and rows,
\* also when the bounds have the same absolute value.
C32_SameMoveEngineInterface ==
  [][\A v \in 0..MaxTot :
       (InterfaceChooses(v) /\ BoxedAfter(v)) =>
         At(nonbasicMove_', v) = EngineMoveAfter(v)]_vars

\* C32 amended: the interface chooses the move the engine chooses, except
\* for a row whose bounds have the same absolute value, where the engine
\* chooses move -1 (the row at its lower bound) and the interface move +1
\* (the row at its upper bound).
C32_SameMoveButRowTie ==
  [][\A v \in 0..MaxTot :
       (InterfaceChooses(v) /\ BoxedAfter(v)) =>
         IF v >= num_col_' /\ Abs(LowerAfter(v)) = Abs(UpperAfter(v))
         THEN /\ At(nonbasicMove_', v) = kNonbasicMoveUp
              /\ EngineMoveAfter(v) = kNonbasicMoveDn
         ELSE /\ At(nonbasicMove_', v) = EngineMoveAfter(v)
              /\ EngineMoveAfter(v) =
                   IF Abs(LowerAfter(v)) < Abs(UpperAfter(v))
                   THEN kNonbasicMoveUp ELSE kNonbasicMoveDn]_vars

\* the interface has given a row with bounds of the same absolute value its
\* move, and the engine's setNonbasicMove has then given it another
C32_Witness ==
  /\ lastOp = "setNonbasicMove"
  /\ has_basis
  /\ At(row_status, 0) = "kUpper"
  /\ Abs(At(row_lower_, 0)) = Abs(At(row_upper_, 0))
  /\ At(nonbasicFlag_, num_col_) = kNonbasicFlagTrue
  /\ At(nonbasicMove_, num_col_) = kNonbasicMoveDn

\* the interface has given a column with bounds of the same absolute value
\* the move of the engine
C32_WitnessColumn ==
  /\ lastOp = "changeColBoundsInterface"
  /\ has_basis
  /\ At(col_status, 0) = "kUpper"
  /\ Abs(At(col_lower_, 0)) = Abs(At(col_upper_, 0))
  /\ At(nonbasicMove_, 0) = kNonbasicMoveDn

\* ---------------- specification: the status of the factorization (HEkk)

\* void HEkk::updateFactor(column, row_ep, iRow, hint): factor_.update is not
\* followed; the hint is the caller's
UpdateFactor ==
  /\ has_basis
  /\ has_invert' = TRUE
  /\ lastOp' = "updateFactor"
  /\ UNCHANGED <<has_fresh_invert, has_matrix, update_count, rank_deficiency,
                 noPvR, noPvC, initialise_return, basic_variables,
                 computeFactor_calls, modelVars, solveVars, historyVars>>

\* computeFactor, updatePivots and updateFactor in any order on the LP of
\* SpecBack; updatePivots up to MaxPivot times between two factorizations
NextUpdateStep ==
  \/ ComputeFactor
  \/ \E variable_in \in Variables, row_out \in 0..(num_row_ - 1),
        move_out \in {-1, 1} :
       /\ update_count < MaxPivot
       /\ At(nonbasicFlag_, variable_in) = kNonbasicFlagTrue
       /\ UpdatePivotsFactor(variable_in, row_out, move_out)
  \/ UpdateFactor

NextUpdate ==
  NextUpdateStep /\
    UNCHANGED <<perturbVars, editVars, infVars, optVars, callVars, threadVars,
                has_fresh_rebuild, num_basic_logicals, dualVars, backVars>>

SpecUpdate == InitBackSpec /\ [][NextUpdate]_vars

\* ----------------------------------------------- properties of SpecUpdate

\* a fresh factorization is a factorization, with no update made since
FreshInvert == has_fresh_invert => (has_invert /\ update_count = 0)

\* what each of the three operations does to the flags and the count
FactorSteps ==
  /\ lastOp' = "computeFactor" =>
       /\ has_invert' = (rank_deficiency' = 0)
       /\ has_fresh_invert' = (rank_deficiency' = 0)
       /\ update_count' = 0
  /\ lastOp' = "updateFactor" =>
       /\ has_invert'
       /\ has_fresh_invert' = has_fresh_invert
       /\ update_count' = update_count
  /\ lastOp' = "updatePivots" => update_count' = update_count + 1

\* C33: in every state has_fresh_invert implies has_invert and
\* update_count = 0; computeFactor sets both flags exactly when the rank
\* deficiency is 0 and resets update_count; updateFactor sets has_invert and
\* leaves has_fresh_invert; update_count counts the calls of updatePivots
\* since the last computeFactor.
C33_FactorStatus == []FreshInvert /\ [][FactorSteps]_vars

\* updateFactor has given a factorization that is not fresh after two
\* updates, and a factorization has been rank deficient before
C33_Witness ==
  /\ lastOp = "updateFactor"
  /\ has_invert
  /\ ~has_fresh_invert
  /\ update_count = 2
  /\ rank_deficiency # 0

\* ------------------------------ properties of SpecPivot: basic logicals

\* the basic variables that are logicals
BasicLogicals == {i \in DOMAIN basicIndex_ : basicIndex_[i] >= num_col_}

\* C34: after setBasis() and any sequence of updatePivots calls with
\* variable_in nonbasic, num_basic_logicals is the number of entries of
\* basicIndex that are logicals, and lies between 0 and the number of rows.
C34_BasicLogicalsCounted ==
  /\ num_basic_logicals = Cardinality(BasicLogicals)
  /\ num_basic_logicals \in 0..num_row_

\* more than one pivot has been made and one of the two basic variables is
\* a logical
C34_Witness ==
  /\ lastOp = "updatePivots"
  /\ update_count > 1
  /\ num_basic_logicals = 1
  /\ Cardinality(BasicLogicals) = 1

\* both columns are basic
C34_WitnessNoLogical ==
  /\ lastOp = "updatePivots"
  /\ num_basic_logicals = 0
  /\ BasicLogicals = {}


\* ------------------------------------- HEkk::correctDual: what is left

\* variable i is nonbasic and has a finite working bound
NonbasicFiniteBound(i) ==
  /\ At(nonbasicFlag_, i) # kNonbasicFlagFalse
  /\ ~(At(workLower_, i) = -kHighsInf /\ At(workUpper_, i) = kHighsInf)

\* C35: after correctDual returns true (tau_d > 0) no nonbasic variable
\* with at least one finite working bound has nonbasicMove * workDual <=
\* -tau_d, and the workValue of every boxed variable that was flipped is the
\* bound its new move selects
C35_NoInfeasibilityLeft ==
  [][(lastOp' = "correctDual" /\ correct_dual'.returned) =>
         /\ TauD > 0
         /\ \A i \in 0..(num_tot - 1) :
              NonbasicFiniteBound(i)' =>
                At(nonbasicMove_', i) * At(workDual_', i) > -TauD
         /\ \A i \in 0..(num_tot - 1) :
              (DualInfeasible(i) /\ Boxed(i)) =>
                /\ At(nonbasicMove_', i) = -At(nonbasicMove_, i)
                /\ At(workValue_', i) =
                     (IF At(nonbasicMove_', i) = 1 THEN At(workLower_', i)
                      ELSE At(workUpper_', i))]_vars

\* correctDual has returned true after a flip of a boxed variable to its
\* lower bound and a shift of a one-sided one
C35_Witness ==
  /\ lastOp = "correctDual"
  /\ correct_dual.returned
  /\ correct_dual.flip_dual_objective_value_change # 0
  /\ \E i \in 0..(num_tot - 1) :
       /\ NonbasicFiniteBound(i)
       /\ Boxed(i)
       /\ At(nonbasicMove_, i) = 1
       /\ At(workValue_, i) = At(workLower_, i)
       /\ At(workDual_, i) >= TauD
  /\ \E i \in 0..(num_tot - 1) :
       /\ NonbasicFiniteBound(i)
       /\ ~Boxed(i)
       /\ Abs(At(workDual_, i)) > TauD


\* ------------------------ appendNonbasicColsToBasisInterface: the shift

\* the largest number of columns of an LP that columns are added to
MaxAppendCol == 4

\* the largest number of rows of an LP that columns are added to
MaxAppendRow == 3

\* an LP of one column and two rows with a valid basis of Highs and the same
\* basis in the engine: any two of the three variables are basic, in either
\* order
InitAppendSpec ==
  /\ InitSolve
  /\ InitHistory
  /\ InitPerturb
  /\ InitFactor
  /\ InitEdit
  /\ InitInf
  /\ InitOpt
  /\ InitCall
  /\ InitThreads
  /\ InitDual
  /\ InitBack
  /\ num_col_ = 1
  /\ num_row_ = 2
  /\ col_cost_ = <<Unit>>
  /\ \E cb \in FirstBounds, rb \in FirstBounds :
       /\ col_lower_ = <<cb[1]>>
       /\ col_upper_ = <<cb[2]>>
       /\ row_lower_ = <<rb[1], BoxedBounds[1]>>
       /\ row_upper_ = <<rb[2], BoxedBounds[2]>>
  /\ a_matrix_ = <<{<<0, Unit>>, <<1, Unit>>}>>
  /\ integrality_ = <<>>
  /\ user_bound_scale_ = 0
  /\ user_cost_scale_ = 0
  /\ has_basis = TRUE
  /\ \E q0 \in 0..2, q1 \in 0..2 :
       /\ q0 # q1
       /\ basicIndex_ = <<q0, q1>>
       /\ nonbasicFlag_ =
            [k \in 1..3 |->
               IF k - 1 \in {q0, q1} THEN kNonbasicFlagFalse
               ELSE kNonbasicFlagTrue]
  /\ nonbasicMove_ = SetNonbasicMove(nonbasicFlag_)
  /\ basis_valid = TRUE
  /\ col_status = <<StatusOfMove(0)>>
  /\ row_status = <<StatusOfMove(1), StatusOfMove(2)>>
  /\ model_status_ = "kOptimal"
  /\ solution_valid = TRUE
  /\ info_valid = TRUE
  /\ last_return = "kOk"
  /\ workLower_ = <<>>
  /\ workUpper_ = <<>>
  /\ workValue_ = <<>>
  /\ workDual_ = <<>>
  /\ bounds_perturbed = FALSE
  /\ initialised_for_solve = FALSE
  /\ nvm_pending = FALSE

\* columns, fewer than the rows or as many or more, and a row are added
NextAppendStep ==
  \/ \E b \in BasisBounds, k \in 1..MaxAppendRow :
       /\ num_col_ + k <= MaxAppendCol
       /\ AddColsInterface(k, 0, FALSE, FALSE,
                           [i \in 1..k |-> NewCol(b, Unit, <<>>)])
       /\ before_add' = BeforeAdd(k)
       /\ UNCHANGED <<mask_, before_handle>>
  \/ /\ num_row_ < MaxAppendRow
     /\ AddRowsInterface(1, 0, FALSE, FALSE, <<NewRow(BoxedBounds, <<>>)>>)
     /\ UNCHANGED editVars

\* the factorization is not followed here
NextAppend == NextAppendStep /\ UNCHANGED <<perturbVars, factorVars, infVars, optVars,
                callVars, threadVars, has_fresh_rebuild, num_basic_logicals,
                dualVars, backVars>>

SpecAppend == InitAppendSpec /\ [][NextAppend]_vars

\* C36: after addColsInterface adds n' > 0 columns to an LP with n columns
\* and m rows that has a valid basis and a simplex basis, the nonbasicFlag
\* and nonbasicMove of the slack of every row i at its new index n + n' + i
\* are those at the old index n + i before the call, every basicIndex entry
\* that was >= n is increased by exactly n' and every entry < n is unchanged,
\* for n' < m as well as for n' >= m
C36_SlacksShiftedInPlace ==
  [][AddsCols =>
       LET n == num_col_
           added == num_col_' - num_col_
       IN /\ num_row_' = num_row_
          /\ Len(basicIndex_') = num_row_
          /\ Len(nonbasicFlag_') = n + added + num_row_
          /\ Len(nonbasicMove_') = n + added + num_row_
          /\ \A i \in 0..(num_row_ - 1) :
               /\ At(nonbasicFlag_', n + added + i) = At(nonbasicFlag_, n + i)
               /\ At(nonbasicMove_', n + added + i) = At(nonbasicMove_, n + i)
               /\ At(basicIndex_', i) =
                    (IF At(basicIndex_, i) >= n THEN At(basicIndex_, i) + added
                     ELSE At(basicIndex_, i))]_vars

\* the last call of addColsInterface added columns to an LP with a valid
\* basis, a basic and a nonbasic slack and a basic column
AddedToMixedBasis ==
  /\ lastOp = "addColsInterface"
  /\ last_return = "kOk"
  /\ before_add.basis_valid
  /\ has_basis
  /\ num_col_ = before_add.num_col_ + before_add.num_new_col
  /\ \E i, j \in 0..(num_row_ - 1) :
       /\ At(nonbasicFlag_, num_col_ + i) = kNonbasicFlagFalse
       /\ At(nonbasicFlag_, num_col_ + j) = kNonbasicFlagTrue
       /\ At(nonbasicMove_, num_col_ + j) # 0
  /\ \E r \in 0..(num_row_ - 1) : At(basicIndex_, r) < before_add.num_col_
  /\ \E r \in 0..(num_row_ - 1) : At(basicIndex_, r) >= num_col_

\* fewer columns than rows have been added
C36_Witness ==
  /\ AddedToMixedBasis
  /\ before_add.num_new_col < before_add.num_row_

\* as many columns as rows, or more, have been added
C36_WitnessManyColumns ==
  /\ AddedToMixedBasis
  /\ before_add.num_new_col >= before_add.num_row_


\* ------------------------- HEkk::setBasis(basis) then HEkk::getHighsBasis

\* the bounds of the variables of an LP whose basis is set and read back
RoundBounds == {FixedBounds, BoxedBounds, LowerBounds, FreeBounds}

\* the statuses of the nonbasic variables of a basis of Highs
NonbasicStatuses == {"kLower", "kUpper", "kZero"}

\* an LP of two columns and one row, no simplex basis, and any basis of Highs
\* with exactly one basic variable and the others at Lower, Upper or Zero
InitRoundSpec ==
  /\ InitSolve
  /\ InitHistory
  /\ InitPerturb
  /\ InitFactor
  /\ InitEdit
  /\ InitInf
  /\ InitOpt
  /\ InitCall
  /\ InitThreads
  /\ InitDual
  /\ InitBack
  /\ num_col_ = 2
  /\ num_row_ = 1
  /\ col_cost_ = <<Unit, Unit>>
  /\ \E cb0 \in RoundBounds, cb1 \in RoundBounds, rb \in RoundBounds :
       /\ col_lower_ = <<cb0[1], cb1[1]>>
       /\ col_upper_ = <<cb0[2], cb1[2]>>
       /\ row_lower_ = <<rb[1]>>
       /\ row_upper_ = <<rb[2]>>
  /\ a_matrix_ = <<{<<0, Unit>>}, {<<0, Unit>>}>>
  /\ integrality_ = <<>>
  /\ user_bound_scale_ = 0
  /\ user_cost_scale_ = 0
  /\ basis_valid = TRUE
  /\ \E q \in 0..2, st \in [1..3 -> NonbasicStatuses] :
       LET status(iVar) == IF iVar = q THEN "kBasic" ELSE st[iVar + 1]
       IN /\ col_status = <<status(0), status(1)>>
          /\ row_status = <<status(2)>>
          /\ st[q + 1] = "kLower"
  /\ model_status_ = "kNotset"
  /\ solution_valid = FALSE
  /\ info_valid = FALSE
  /\ last_return = "none"
  /\ has_basis = FALSE
  /\ basicIndex_ = <<>>
  /\ nonbasicFlag_ = <<>>
  /\ nonbasicMove_ = <<>>
  /\ workLower_ = <<>>
  /\ workUpper_ = <<>>
  /\ workValue_ = <<>>
  /\ workDual_ = <<>>
  /\ bounds_perturbed = FALSE
  /\ initialised_for_solve = FALSE
  /\ nvm_pending = FALSE

\* the basis of Highs is given to the engine and read back
NextRoundStep ==
  \/ /\ lastOp # "setBasisHighs"
     /\ SetBasisHighs
  \/ /\ lastOp = "setBasisHighs"
     /\ GetHighsBasis

\* the factorization is not followed here
NextRound == NextRoundStep /\ UNCHANGED <<perturbVars, factorVars, editVars, infVars,
               optVars, callVars, threadVars, has_fresh_rebuild,
               num_basic_logicals, dualVars, backVars>>

SpecRound == InitRoundSpec /\ [][NextRound]_vars

\* the basis of Highs has exactly num_row_ basic variables, the others are
\* at Lower, Upper or Zero, and Zero only where the bounds differ
RoundTripBasis ==
  /\ Cardinality(BasicVarsOf(col_status, row_status)) = num_row_
  /\ \A iVar \in 0..(num_tot - 1) :
       /\ HighsStatusOf(iVar) \in NonbasicStatuses \cup {"kBasic"}
       /\ HighsStatusOf(iVar) = "kZero" => LpLower(iVar) # LpUpper(iVar)

\* getHighsBasis() is called after setBasis(b) has returned Ok for such a b
RoundTripStep ==
  /\ lastOp = "setBasisHighs"
  /\ last_return = "kOk"
  /\ lastOp' = "getHighsBasis"
  /\ RoundTripBasis

\* getHighsBasis returns b, valid
ReturnsSameBasis ==
  /\ col_status' = col_status
  /\ row_status' = row_status
  /\ basis_valid'

\* the sign of the move of a variable at its lower bound: +1 for a column,
\* -1 for a row
LowerMove(iVar) == IF iVar < num_col_ THEN kNonbasicMoveUp ELSE kNonbasicMoveDn

\* Lower <-> the move to the upper bound and Upper <-> the move to the lower
\* bound, for every nonbasic variable
MovesAsStated ==
  \A iVar \in 0..(num_tot - 1) :
    HighsStatusOf(iVar) # "kBasic" =>
      /\ HighsStatusOf(iVar) = "kLower"
           <=> At(nonbasicMove_, iVar) = LowerMove(iVar)
      /\ HighsStatusOf(iVar) = "kUpper"
           <=> At(nonbasicMove_, iVar) = -LowerMove(iVar)

\* the same, but Lower on a fixed variable <-> move 0
MovesButFixedLower ==
  \A iVar \in 0..(num_tot - 1) :
    HighsStatusOf(iVar) # "kBasic" =>
      /\ HighsStatusOf(iVar) = "kLower"
           <=> At(nonbasicMove_, iVar) =
                 (IF LpLower(iVar) = LpUpper(iVar) THEN kNonbasicMoveZe
                  ELSE LowerMove(iVar))
      /\ HighsStatusOf(iVar) = "kUpper"
           <=> At(nonbasicMove_, iVar) = -LowerMove(iVar)

\* C37 as stated: for every HighsBasis b with exactly m Basic statuses and
\* all other statuses in {Lower, Upper, Zero}, Zero only for variables whose
\* bounds differ, getHighsBasis() called after setBasis(b) returns col_status
\* and row_status equal to b's with valid_ = true, columns mapping Lower <->
\* move +1 and Upper <-> move -1, rows Lower <-> move -1 and Upper <-> move +1
C37_RoundTripMovesAsStated ==
  [][RoundTripStep => (ReturnsSameBasis /\ MovesAsStated)]_vars

\* C37 (amended): the same round trip, where Lower on a variable whose
\* bounds are equal maps to move 0 and back to Lower
C37_RoundTrip ==
  [][RoundTripStep => (ReturnsSameBasis /\ MovesButFixedLower)]_vars

\* a basis with a column at Upper, a fixed column at Lower and the row basic
\* has been set and read back
C37_Witness ==
  /\ lastOp = "getHighsBasis"
  /\ last_return = "kOk"
  /\ RoundTripBasis
  /\ At(col_status, 0) = "kUpper"
  /\ At(col_status, 1) = "kLower"
  /\ At(col_lower_, 1) = At(col_upper_, 1)
  /\ At(nonbasicMove_, 0) = kNonbasicMoveDn
  /\ At(nonbasicMove_, 1) = kNonbasicMoveZe

\* a basis with a boxed row at Lower and a free column at Zero has been set
\* and read back
C37_WitnessRow ==
  /\ lastOp = "getHighsBasis"
  /\ last_return = "kOk"
  /\ RoundTripBasis
  /\ row_status = <<"kLower">>
  /\ At(nonbasicMove_, 2) = kNonbasicMoveDn
  /\ At(row_lower_, 0) # At(row_upper_, 0)
  /\ \E iCol \in 0..1 :
       /\ At(col_status, iCol) = "kZero"
       /\ At(col_lower_, iCol) = -kHighsInf


\* ----------------------------------------- HEkk::solve: the driver solves

\* what a step of the solve leaves alone
solveFrame ==
  <<modelVars, perturbVars, factorVars, editVars, infVars, optVars, callVars, threadVars,
    has_fresh_rebuild, num_basic_logicals, dualVars, backVars>>

\* solve calls the driver it has constructed
DriverCalled == DriverInitialise /\ UNCHANGED solveFrame

\* the driver returns to solve
DriverReturns ==
  /\ \E st \in ModelStatuses, cs \in HighsStatuses,
        np \in 0..MaxInfeas, nd \in 0..MaxInfeas :
       DriverReturn(st, cs, np, nd)
  /\ UNCHANGED solveFrame

\* the solve control flow where every driver that is called runs and returns
SpecSolveLive ==
  /\ InitSolveSpec
  /\ [][NextSolve]_vars
  /\ WF_vars(DriverCalled)
  /\ WF_vars(DriverReturns)

\* the driver solves solve has invoked since its entry
DriverSolves == Len(runs) + (IF pc = "run" THEN 1 ELSE 0)

\* the place of a stage in solve
StageRank(s) ==
  CASE s = "initial" -> 1 [] s = "rerun" -> 2 [] s = "cleanup" -> 3
    [] OTHER -> 0

\* the stage of the driver that is called or running
StageNow == IF pc \in {"call", "run"} THEN {stage} ELSE {}

\* the initial run comes first, the primal re-run follows a dual run that
\* left UnboundedOrInfeasible, the cleanup run is the last, and each is made
\* at most once
RunsInOrder ==
  /\ \A i \in DOMAIN runs : StageRank(runs[i].stage) >= 1
  /\ \A i, j \in DOMAIN runs :
       i < j => StageRank(runs[i].stage) < StageRank(runs[j].stage)
  /\ \A i \in DOMAIN runs, s \in StageNow :
       StageRank(runs[i].stage) < StageRank(s)
  /\ \A i \in DOMAIN runs :
       runs[i].stage = "rerun" =>
         /\ i = 2
         /\ runs[i].driver = "primal"
         /\ runs[1].driver = "dual"
         /\ runs[1].status = "kUnboundedOrInfeasible"

\* C38: every execution of HEkk::solve whose driver calls return invokes at
\* most three driver solves (the initial primal or dual run, at most one
\* primal re-run after a dual UnboundedOrInfeasible result, and at most one
\* cleanup run) and then returns; solve never goes back to choose a strategy
\* a second time
C38_AtMostThreeDriverSolves ==
  /\ [](DriverSolves <= 3 /\ RunsInOrder /\ choose_calls <= 1)
  /\ (pc # "idle") ~> Returned

\* solve has returned after the dual run, the primal re-run and the cleanup
\* run, having chosen the strategy once
C38_Witness ==
  /\ Returned
  /\ choose_calls = 1
  /\ DriverSolves = 3
  /\ runs[1].driver = "dual"
  /\ runs[2].stage = "rerun"
  /\ runs[2].status = "kNotset"
  /\ runs[3].stage = "cleanup"
  /\ solve_return = "kOk"


\* ------------------------------- HEkk::solve: perturbation in the next solve

\* HEkk::solve as Solve, with the blocks on perturbation: they are lifted
\* after the early return for an optimal basis
SolveEntry(np, nd, strategy_option) ==
  /\ Solve(np, nd, strategy_option)
  /\ at_entry' =
       [dual_simplex_cost_perturbation_multiplier |->
          dual_simplex_cost_perturbation_multiplier,
        primal_simplex_bound_perturbation_multiplier |->
          primal_simplex_bound_perturbation_multiplier,
        allow_cost_perturbation |-> simplex_info_allow_cost_perturbation,
        allow_bound_perturbation |-> simplex_info_allow_bound_perturbation]
  /\ IF scaled_model_status_' = "kOptimal"
     THEN UNCHANGED <<simplex_info_allow_cost_perturbation,
                      simplex_info_allow_bound_perturbation>>
     ELSE /\ simplex_info_allow_cost_perturbation' = TRUE
          /\ simplex_info_allow_bound_perturbation' = TRUE

\* the running driver blocks the perturbation of the costs or of the bounds
DriverBlocksPerturbation(cost) ==
  /\ pc = "run"
  /\ IF cost
     THEN /\ simplex_info_allow_cost_perturbation
          /\ simplex_info_allow_cost_perturbation' = FALSE
          /\ UNCHANGED simplex_info_allow_bound_perturbation
     ELSE /\ simplex_info_allow_bound_perturbation
          /\ simplex_info_allow_bound_perturbation' = FALSE
          /\ UNCHANGED simplex_info_allow_cost_perturbation
  /\ lastOp' = "blockPerturbation"
  /\ UNCHANGED <<solveVars, historyVars, at_entry>>

\* solves follow each other; a driver may block perturbation while it runs
NextLeakStep ==
  \/ \E np \in 0..MaxInfeas, nd \in 0..MaxInfeas, so \in StrategyOptions :
       SolveEntry(np, nd, so)
  \/ DriverInitialise /\ UNCHANGED perturbVars
  \/ \E cost \in BOOLEAN : DriverBlocksPerturbation(cost)
  \/ \E st \in ModelStatuses, cs \in HighsStatuses,
        np \in 0..MaxInfeas, nd \in 0..MaxInfeas :
       DriverReturn(st, cs, np, nd) /\ UNCHANGED perturbVars

NextLeak ==
  NextLeakStep /\
    UNCHANGED <<modelVars, factorVars, editVars, infVars, optVars, callVars,
                threadVars, has_fresh_rebuild, num_basic_logicals, dualVars,
                backVars>>

SpecLeak == InitSolveSpec /\ [][NextLeak]_vars

\* the first driver of a solve starts
FirstDriverStarts == lastOp' = "driverInitialise" /\ stage' = "initial"

\* C39: the zero perturbation multipliers that cleanup() writes do not leak
\* into the next solve: in every HEkk::solve, when the first driver starts,
\* dual_simplex_cost_perturbation_multiplier and
\* primal_simplex_bound_perturbation_multiplier equal the option values and
\* allow_cost_perturbation and allow_bound_perturbation are true, whatever an
\* earlier solve or cleanup left behind
C39_NoLeakIntoNextSolve ==
  [][FirstDriverStarts =>
         /\ dual_simplex_cost_perturbation_multiplier' =
              options_dual_simplex_cost_perturbation_multiplier
         /\ primal_simplex_bound_perturbation_multiplier' =
              options_primal_simplex_bound_perturbation_multiplier
         /\ simplex_info_allow_cost_perturbation'
         /\ simplex_info_allow_bound_perturbation']_vars

\* the first driver of a solve has started; the solve found the zero cost
\* multiplier of a dual cleanup and a block on cost perturbation
C39_Witness ==
  /\ lastOp = "driverInitialise"
  /\ stage = "initial"
  /\ at_entry.dual_simplex_cost_perturbation_multiplier = 0
  /\ options_dual_simplex_cost_perturbation_multiplier # 0
  /\ ~at_entry.allow_cost_perturbation

\* the same, with the zero bound multiplier of a primal cleanup and a block
\* on bound perturbation
C39_WitnessPrimal ==
  /\ lastOp = "driverInitialise"
  /\ stage = "initial"
  /\ at_entry.primal_simplex_bound_perturbation_multiplier = 0
  /\ options_primal_simplex_bound_perturbation_multiplier # 0
  /\ ~at_entry.allow_bound_perturbation

====
